---- MODULE Spec2Model ----
(***************************************************************************)
(* Order assistant: the Domain Store (app/database.py, seed_data.py), the  *)
(* Tool Set and the analytical-query safety gate (app/agent.py) and the    *)
(* chat operation with its per-session memory (app/main.py).               *)
(*                                                                         *)
(* Strings of the program are TLA+ strings; the string operations the code *)
(* uses (lower, upper, "in", zfill, f-strings) are computed character by   *)
(* character with Len, SubSeq and \o.  Money is kept in cents.  Time is    *)
(* counted in ticks, a fraction of a day, so that timedelta.days (a floor) is     *)
(* distinguishable from the exact difference of two datetimes.             *)
(***************************************************************************)
EXTENDS Integers, Sequences, FiniteSets, TLC

VARIABLES
    customers,    \* table customers: set of rows
    products,     \* table products
    orders,       \* table orders
    order_items,  \* table order_items
    returns,      \* table returns
    now,          \* datetime.utcnow(), in ticks
    last,         \* the call made by the latest step and what it gave back
    gate,         \* the latest evaluation of execute_safe_query
    analysis,     \* the query_database call in progress, or the latest finished one
    knowledge,    \* the vector store of app/knowledge_base.py: the indexed chunks
    placing,      \* the place_order requests in progress, one per server process
    ui,           \* st.session_state of the chat UI and its threads.json
    checkpoints,  \* agents_cache: agent key -> (thread_id -> stored messages)
    turn,         \* the chat request being processed, or idle
    used_ids,     \* session ids that some chat turn has used
    log           \* history: for each started turn, what it was given

vars == <<customers, products, orders, order_items, returns, now, last,
          gate, analysis, knowledge, placing, ui, checkpoints, turn, used_ids, log>>

storeVars == <<customers, products, orders, order_items, returns, now, last>>
chatVars == <<checkpoints, turn, used_ids, log>>

----------------------------------------------------------------------------
(* Bounds of the model *)

\* the clock stops advancing once it would pass this day
MaxDay == 31
\* resolution of the clock: ticks per day
TicksPerDay == 2
\* PlaceOrder is not taken once the orders table holds this many rows
MaxOrders == 4
\* chat turns made in one behaviour
MaxTurns == 2
\* model responses with tool calls explored in one turn
MaxRounds == 1

(* Program constants *)

\* the return window of initiate_return, in days
ReturnWindowDays == 30
\* bounds of random.randint for the return id
ReturnIdLo == 1000
ReturnIdHi == 9999
\* width of the zero-filled order number
OrderIdWidth == 3

----------------------------------------------------------------------------
(* String operations *)

Char(s, i) == SubSeq(s, i, i)

LowerCase == "abcdefghijklmnopqrstuvwxyz"
UpperCase == "ABCDEFGHIJKLMNOPQRSTUVWXYZ"
Decimal == "0123456789"

\* position of the one-character string c in the alphabet a, or 0
IndexIn(c, a) ==
    IF \E i \in 1..Len(a) : Char(a, i) = c
    THEN CHOOSE i \in 1..Len(a) : Char(a, i) = c
    ELSE 0

\* the letters with their other case
ToLower == [c \in {Char(UpperCase, i) : i \in 1..Len(UpperCase)} |->
               Char(LowerCase, IndexIn(c, UpperCase))]
ToUpper == [c \in {Char(LowerCase, i) : i \in 1..Len(LowerCase)} |->
               Char(UpperCase, IndexIn(c, LowerCase))]

LowerChar(c) == IF c \in DOMAIN ToLower THEN ToLower[c] ELSE c

UpperChar(c) == IF c \in DOMAIN ToUpper THEN ToUpper[c] ELSE c

RECURSIVE Lower(_)
\* str.lower()
Lower(s) ==
    IF Len(s) = 0 THEN "" ELSE LowerChar(Char(s, 1)) \o Lower(SubSeq(s, 2, Len(s)))

RECURSIVE Upper(_)
\* str.upper()
Upper(s) ==
    IF Len(s) = 0 THEN "" ELSE UpperChar(Char(s, 1)) \o Upper(SubSeq(s, 2, Len(s)))

\* the Python test  k in s  on strings
Contains(s, k) ==
    \E i \in 1..(Len(s) - Len(k) + 1) : SubSeq(s, i, i + Len(k) - 1) = k

RECURSIVE Str(_)
\* str(n) of an integer
Str(n) ==
    IF n < 0 THEN "-" \o Str(0 - n)
    ELSE IF n < 10 THEN Char(Decimal, n + 1)
    ELSE Str(n \div 10) \o Char(Decimal, (n % 10) + 1)

RECURSIVE ZFill(_, _)
\* str.zfill(width), for strings without a sign
ZFill(s, width) == IF Len(s) >= width THEN s ELSE ZFill("0" \o s, width)

Digits == {Char(Decimal, i) : i \in 1..Len(Decimal)}

IsDigits(s) == \A i \in 1..Len(s) : Char(s, i) \in Digits

\* f"${x:.2f}" of an amount kept in cents (amounts are not negative here)
Money(cents) == "$" \o Str(cents \div 100) \o "." \o ZFill(Str(cents % 100), 2)

\* strftime("%Y-%m-%d"): the calendar day of a tick, written as its day number
FormatDate(t) == "day " \o Str(t \div TicksPerDay)

----------------------------------------------------------------------------
(* Domain Store: seed_data.py *)

Days(d) == d * TicksPerDay

\* the instant at which seed_database ran
SeedTime == Days(10)

SeedCustomers ==
    { [id |-> 1, name |-> "John Doe", email |-> "john@example.com", phone |-> "555-0001"],
      [id |-> 2, name |-> "Jane Smith", email |-> "jane@example.com", phone |-> "555-0002"],
      [id |-> 3, name |-> "Bob Wilson", email |-> "bob@example.com", phone |-> "555-0003"] }

SeedProducts ==
    { [id |-> 1, sku |-> "SKU001", name |-> "Wireless Headphones", price |-> 4999],
      [id |-> 2, sku |-> "SKU002", name |-> "USB-C Cable (6ft)", price |-> 1599],
      [id |-> 3, sku |-> "SKU003", name |-> "Phone Case - Black", price |-> 2500],
      [id |-> 4, sku |-> "SKU004", name |-> "Screen Protector", price |-> 1299],
      [id |-> 5, sku |-> "SKU005", name |-> "Bluetooth Speaker", price |-> 7999],
      [id |-> 6, sku |-> "SKU006", name |-> "Wireless Mouse", price |-> 2999],
      [id |-> 7, sku |-> "SKU007", name |-> "Keyboard - Mechanical", price |-> 8999],
      [id |-> 8, sku |-> "SKU008", name |-> "Laptop Stand", price |-> 3999],
      [id |-> 9, sku |-> "SKU009", name |-> "Webcam HD", price |-> 5999],
      [id |-> 10, sku |-> "SKU010", name |-> "USB Hub 4-Port", price |-> 1999] }

\* the orders seed_database inserts when it runs at instant t
SeedOrders(t) ==
    { [id |-> "ORD001", customer_id |-> 1, total |-> 4999, status |-> "delivered",
       order_date |-> t - Days(10)],
      [id |-> "ORD002", customer_id |-> 2, total |-> 2898, status |-> "shipped",
       order_date |-> t - Days(3)],
      [id |-> "ORD003", customer_id |-> 3, total |-> 10499, status |-> "pending",
       order_date |-> t - Days(1)] }

SeedOrderItems ==
    { [id |-> 1, order_id |-> "ORD001", product_id |-> 1, quantity |-> 1],
      [id |-> 2, order_id |-> "ORD002", product_id |-> 2, quantity |-> 1],
      [id |-> 3, order_id |-> "ORD002", product_id |-> 4, quantity |-> 1],
      [id |-> 4, order_id |-> "ORD003", product_id |-> 3, quantity |-> 1],
      [id |-> 5, order_id |-> "ORD003", product_id |-> 5, quantity |-> 1] }

----------------------------------------------------------------------------
(* Domain Store: the queries and relationships of app/database.py *)

\* db.query(Order).filter(Order.id == order_id).first(): the matching rows
OrdersWithId(order_id) == {o \in orders : o.id = order_id}

\* Order.customer
CustomerOf(o) == CHOOSE c \in customers : c.id = o.customer_id

\* Order.items
ItemsOf(o) == {i \in order_items : i.order_id = o.id}

\* OrderItem.product
ProductOf(i) == CHOOSE p \in products : p.id = i.product_id

\* Customer.orders without the join on customer_id
OrdersOf_AllOrders(c) == orders

\* Customer.orders
OrdersOf(c) == {o \in orders : o.customer_id = c.id}

\* the rows of a set in the order of their integer primary key
RECURSIVE ById(_)
ById(rows) ==
    IF rows = {} THEN <<>>
    ELSE LET r == CHOOSE x \in rows : \A y \in rows : x.id <= y.id
         IN <<r>> \o ById(rows \ {r})

\* the next integer primary key of a table
NextId(rows) ==
    IF rows = {} THEN 1
    ELSE 1 + (CHOOSE m \in {r.id : r \in rows} : \A r \in rows : r.id <= m)

\* what a call that raised leaves in  last
Raised(op, args, exc) ==
    [op |-> op, args |-> args, raised |-> TRUE, result |-> [exception |-> exc]]

\* what a call that returned leaves in  last
Returned(op, args, res) ==
    [op |-> op, args |-> args, raised |-> FALSE, result |-> res]

NoCall == [op |-> "none", args |-> <<>>, raised |-> FALSE, result |-> [none |-> TRUE]]

----------------------------------------------------------------------------
(* Inputs of the operations *)

OrderIdInputs == {"ORD001", "ORD004", "ORD9"}
EmailInputs == {"john@example.com", "John@Example.COM", "ann@shop.io"}
SkuInputs == {"SKU001", "SKU002"}
ReasonInputs == {"defective"}

\* the values random.randint is sampled at: the ends of the range and their neighbours
RandomSamples == {999, 1000, 9999, 10000}

\* time that passes between two operations: twenty days, a tick more, a day more
ClockSteps == {Days(20), Days(20) + 1, Days(21)}

PlaceOrderInputs ==
    { [customer_name |-> "Ann Lee", customer_email |-> "Ann@Shop.io", customer_phone |-> "",
       items |-> <<[product_sku |-> "SKU001", quantity |-> 1]>>],
      [customer_name |-> "Ann Lee", customer_email |-> "Ann@Shop.io", customer_phone |-> "",
       items |-> <<[product_sku |-> "SKU002", quantity |-> 2],
                   [product_sku |-> "SKU404", quantity |-> 1]>>] }

\* random.randint(lo, hi)
RandInt(lo, hi) == {n \in RandomSamples : lo <= n /\ n <= hi}

----------------------------------------------------------------------------
(* Tool Set: get_order_status *)

\* the comparison of line 267 without its lower() calls
GetOrderStatusEmailMismatch_CaseSensitive(order, customer_email) ==
    CustomerOf(order).email # customer_email

\* the comparison of line 267
GetOrderStatusEmailMismatch(order, customer_email) ==
    Lower(CustomerOf(order).email) # Lower(customer_email)

\* the loop of lines 273-280
GetOrderStatusItems(order) ==
    LET rows == ById(ItemsOf(order))
    IN [k \in 1..Len(rows) |->
          [name |-> ProductOf(rows[k]).name, sku |-> ProductOf(rows[k]).sku,
           quantity |-> rows[k].quantity, price |-> ProductOf(rows[k]).price]]

\* what get_order_status returns
GetOrderStatusResult(order_id, customer_email) ==
    IF OrdersWithId(order_id) = {}
    THEN [success |-> FALSE,
          message |-> "Order " \o order_id \o " not found in our system."]
    ELSE LET order == CHOOSE o \in OrdersWithId(order_id) : TRUE
         IN IF GetOrderStatusEmailMismatch(order, customer_email)
            THEN [success |-> FALSE,
                  message |-> "The email doesn't match our records for this order."]
            ELSE [success |-> TRUE,
                  order_id |-> order.id,
                  status |-> order.status,
                  order_date |-> FormatDate(order.order_date),
                  total |-> Money(order.total),
                  items |-> GetOrderStatusItems(order),
                  customer_name |-> CustomerOf(order).name]

GetOrderStatus ==
    \E order_id \in OrderIdInputs, customer_email \in EmailInputs :
        /\ last' = Returned("get_order_status",
                            [order_id |-> order_id, customer_email |-> customer_email],
                            GetOrderStatusResult(order_id, customer_email))
        /\ UNCHANGED <<customers, products, orders, order_items, returns, now>>
        /\ UNCHANGED <<gate, analysis, knowledge, placing, ui, chatVars>>

----------------------------------------------------------------------------
(* Tool Set: initiate_return *)

\* the comparison of line 315
InitiateReturnEmailMismatch(order, customer_email) ==
    Lower(CustomerOf(order).email) # Lower(customer_email)

\* the loop of lines 318-322
ProductInOrder(order, product_sku) ==
    \E item \in ItemsOf(order) : ProductOf(item).sku = product_sku

\* (datetime.utcnow() - order.order_date).days
DaysSinceOrder(order) == (now - order.order_date) \div TicksPerDay

\* the test of line 331
WindowExpired(order) == DaysSinceOrder(order) > ReturnWindowDays

MsgOrderNotFound(order_id) == "Order " \o order_id \o " not found."
MsgEmailMismatch == "Email doesn't match order records."
MsgProductNotInOrder(product_sku, order_id) ==
    "Product " \o product_sku \o " not found in order " \o order_id \o "."
MsgWindowExpired(days) ==
    "Return window has expired. Order was placed " \o Str(days)
        \o " days ago (limit: 30 days)."

Failure(message) == [success |-> FALSE, message |-> message]

\* lines 310-335 with the SKU check made before the email check
InitiateReturnChecks_SkuBeforeEmail(order_id, product_sku, customer_email) ==
    IF OrdersWithId(order_id) = {}
    THEN Failure(MsgOrderNotFound(order_id))
    ELSE LET order == CHOOSE o \in OrdersWithId(order_id) : TRUE
         IN IF ~ProductInOrder(order, product_sku)
            THEN Failure(MsgProductNotInOrder(product_sku, order_id))
            ELSE IF InitiateReturnEmailMismatch(order, customer_email)
            THEN Failure(MsgEmailMismatch)
            ELSE IF WindowExpired(order)
            THEN Failure(MsgWindowExpired(DaysSinceOrder(order)))
            ELSE [success |-> TRUE]

\* lines 310-335: the failure result of the first check that fails, or [success |-> TRUE]
\* when every check passes
InitiateReturnChecks(order_id, product_sku, customer_email) ==
    IF OrdersWithId(order_id) = {}
    THEN Failure(MsgOrderNotFound(order_id))
    ELSE LET order == CHOOSE o \in OrdersWithId(order_id) : TRUE
         IN IF InitiateReturnEmailMismatch(order, customer_email)
            THEN Failure(MsgEmailMismatch)
            ELSE IF ~ProductInOrder(order, product_sku)
            THEN Failure(MsgProductNotInOrder(product_sku, order_id))
            ELSE IF WindowExpired(order)
            THEN Failure(MsgWindowExpired(DaysSinceOrder(order)))
            ELSE [success |-> TRUE]

\* line 337 with the range of the return ids of src/main.py (five digits)
ReturnIdDraws_FiveDigits == RandInt(10000, 99999)

\* line 337
ReturnIdDraws == RandInt(ReturnIdLo, ReturnIdHi)
ReturnId(n) == "RET" \o Str(n)

\* lines 338-344; created_at, which no operation reads, is left out
NewReturnRequest(return_id, order_id, product_sku, reason) ==
    [id |-> return_id, order_id |-> order_id, product_sku |-> product_sku,
     reason |-> reason, status |-> "pending"]

\* lines 348-353
InitiateReturnSuccess(return_id) ==
    [success |-> TRUE,
     return_id |-> return_id,
     message |-> "Return request created successfully! Return ID: " \o return_id
                     \o ". We'll email you a return label within 24 hours.",
     next_steps |-> "Pack the item in its original packaging and wait for the return label."]

\* lines 307-356 with the row added and committed before the window check
InitiateReturnOutcome_AddBeforeWindowCheck(args, n) ==
    LET checks == InitiateReturnChecks(args.order_id, args.product_sku, args.customer_email)
        return_id == ReturnId(n)
        order == CHOOSE o \in OrdersWithId(args.order_id) : TRUE
        row == NewReturnRequest(return_id, args.order_id, args.product_sku, args.reason)
    IN IF ~checks.success
       THEN [returns |-> IF /\ OrdersWithId(args.order_id) # {}
                            /\ checks.message = MsgWindowExpired(DaysSinceOrder(order))
                            /\ \A r \in returns : r.id # return_id
                         THEN returns \cup {row}
                         ELSE returns,
             last |-> Returned("initiate_return", args, checks)]
       ELSE IF \E r \in returns : r.id = return_id
       THEN [returns |-> returns,
             last |-> Raised("initiate_return", args, "IntegrityError")]
       ELSE [returns |-> returns \cup {row},
             last |-> Returned("initiate_return", args, InitiateReturnSuccess(return_id))]

\* lines 307-356 with the number n drawn at line 337: the returns table and the
\* outcome the call leaves.  db.add(return_req); db.commit(): the primary key
\* returns.id is unique, and the function has no except clause, so the
\* IntegrityError of the commit leaves the function (the session is closed, nothing
\* is written)
InitiateReturnOutcome(args, n) ==
    LET checks == InitiateReturnChecks(args.order_id, args.product_sku, args.customer_email)
        return_id == ReturnId(n)
    IN IF ~checks.success
       THEN [returns |-> returns, last |-> Returned("initiate_return", args, checks)]
       ELSE IF \E r \in returns : r.id = return_id
       THEN [returns |-> returns,
             last |-> Raised("initiate_return", args, "IntegrityError")]
       ELSE [returns |-> returns \cup
                   {NewReturnRequest(return_id, args.order_id, args.product_sku, args.reason)},
             last |-> Returned("initiate_return", args, InitiateReturnSuccess(return_id))]

\* a call whose checks fail draws no number: one draw stands for all
DrawsFor(args) ==
    IF InitiateReturnChecks(args.order_id, args.product_sku, args.customer_email).success
    THEN ReturnIdDraws
    ELSE {CHOOSE n \in ReturnIdDraws : TRUE}

InitiateReturn ==
    \E order_id \in OrderIdInputs, product_sku \in SkuInputs, reason \in ReasonInputs,
       customer_email \in EmailInputs :
        LET args == [order_id |-> order_id, product_sku |-> product_sku,
                     reason |-> reason, customer_email |-> customer_email]
        IN \E n \in DrawsFor(args) :
            LET out == InitiateReturnOutcome(args, n)
            IN /\ returns' = out.returns
               /\ last' = out.last
               /\ UNCHANGED <<customers, products, orders, order_items, now>>
               /\ UNCHANGED <<gate, analysis, knowledge, placing, ui, chatVars>>

----------------------------------------------------------------------------
(* Tool Set: list_customer_orders *)

\* db.query(Customer).filter(Customer.email == customer_email).first()
CustomersWithEmail(customer_email) == {c \in customers : c.email = customer_email}

RECURSIVE SeqOf(_)
\* the rows of a set in some order
SeqOf(rows) ==
    IF rows = {} THEN <<>>
    ELSE LET r == CHOOSE x \in rows : TRUE IN <<r>> \o SeqOf(rows \ {r})

\* lines 380-386
OrderSummary(order) ==
    [order_id |-> order.id, status |-> order.status, total |-> Money(order.total),
     date |-> FormatDate(order.order_date), items_count |-> Cardinality(ItemsOf(order))]

ListCustomerOrdersResult(customer_email) ==
    IF CustomersWithEmail(customer_email) = {}
    THEN [success |-> FALSE, message |-> "No customer found with that email."]
    ELSE LET customer == CHOOSE c \in CustomersWithEmail(customer_email) : TRUE
             rows == SeqOf(OrdersOf(customer))
         IN [success |-> TRUE,
             customer_name |-> customer.name,
             orders |-> [k \in 1..Len(rows) |-> OrderSummary(rows[k])]]

ListCustomerOrders ==
    \E customer_email \in EmailInputs :
        /\ last' = Returned("list_customer_orders", [customer_email |-> customer_email],
                            ListCustomerOrdersResult(customer_email))
        /\ UNCHANGED <<customers, products, orders, order_items, returns, now>>
        /\ UNCHANGED <<gate, analysis, knowledge, placing, ui, chatVars>>

----------------------------------------------------------------------------
(* Knowledge base: app/knowledge_base.py and search_company_knowledge *)

\* the number of passages search_company_knowledge asks the index for
SearchK == 3

\* a chunk cut by the text splitter: it keeps the metadata of its document
Chunk(page_content, source, type) ==
    [page_content |-> page_content, metadata |-> [source |-> source, type |-> type]]

\* create_knowledge_base: the chunks of the three documents (policies, FAQs, product
\* information), here the first lines of five of them
CreatedKnowledgeBase ==
    { Chunk("RETURN POLICY:\n- Customers can return items within 30 days of delivery",
            "policies", "policy"),
      Chunk("SHIPPING POLICY:\n- Standard shipping: 5-7 business days",
            "policies", "policy"),
      Chunk("Q: Can I cancel my order?\nA: Yes, if the order hasn't shipped yet.",
            "faqs", "faq"),
      Chunk("WIRELESS HEADPHONES (SKU001):\n- Bluetooth 5.0 connectivity",
            "products", "product_info"),
      Chunk("USB-C CABLE (SKU002):\n- 6 feet long", "products", "product_info") }

\* get_knowledge_base: a persisted ./chroma_db is loaded as it is, whatever part of the
\* chunks it holds (none when the directory is empty); without one the index is created
KnowledgeBases == SUBSET CreatedKnowledgeBase

\* dict.get(key, default)
MetadataGet(metadata, key, default) ==
    IF key \in DOMAIN metadata THEN metadata[key] ELSE default

\* the lengths a search for k passages may have on an index of n chunks; the vector
\* store gives the k nearest chunks, all of them when there are fewer
SearchLengths(k, n) == {IF n < k THEN n ELSE k}

\* knowledge_base.similarity_search(query, k): the nearest chunks, nearest first; which
\* chunks are nearest is decided by the embedding, so any ranking is possible
SimilaritySearch(query, k) ==
    {r \in UNION {[1..n -> knowledge] : n \in SearchLengths(k, Cardinality(knowledge))} :
        \A i, j \in DOMAIN r : i # j => r[i] # r[j]}

\* line 238 without the tag
FormatPassage_Untagged(doc) == doc.page_content

\* line 238
FormatPassage(doc) ==
    "**Source: " \o MetadataGet(doc.metadata, "type", "unknown") \o "**\n"
        \o doc.page_content

RECURSIVE Join(_, _)
\* sep.join(parts)
Join(sep, parts) ==
    IF Len(parts) = 0 THEN ""
    ELSE IF Len(parts) = 1 THEN parts[1]
    ELSE parts[1] \o sep \o Join(sep, Tail(parts))

NoRelevantInformation == "No relevant information found in company knowledge base."

\* lines 231-242
SearchCompanyKnowledgeResult(results) ==
    IF Len(results) = 0
    THEN NoRelevantInformation
    ELSE Join("\n\n", [i \in 1..Len(results) |-> FormatPassage(results[i])])

KnowledgeQueries == {"return policy", "do you sell bicycles?"}

SearchCompanyKnowledge ==
    \E query \in KnowledgeQueries :
        \E results \in SimilaritySearch(query, SearchK) :
            /\ last' = Returned("search_company_knowledge",
                                [query |-> query, found |-> results],
                                SearchCompanyKnowledgeResult(results))
            /\ UNCHANGED <<customers, products, orders, order_items, returns, now>>
            /\ UNCHANGED <<gate, analysis, knowledge, placing, ui, chatVars>>

----------------------------------------------------------------------------
(* Order placement: place_order of app/main.py *)

\* db.query(Product).filter(Product.sku == sku).first()
ProductsWithSku(sku) == {p \in products : p.sku = sku}

\* lines 102-112: the customers table after the get-or-create, which is committed
\* at once
CustomersAfterGetOrCreate(request) ==
    IF CustomersWithEmail(request.customer_email) # {}
    THEN customers
    ELSE customers \cup
           {[id |-> NextId(customers), name |-> request.customer_name,
             email |-> request.customer_email, phone |-> request.customer_phone]}

\* the first cart position whose SKU is no product, or 0 (lines 118-125)
FirstUnknownSku(items) ==
    IF \E k \in 1..Len(items) : ProductsWithSku(items[k].product_sku) = {}
    THEN CHOOSE k \in 1..Len(items) :
            /\ ProductsWithSku(items[k].product_sku) = {}
            /\ \A j \in 1..(k - 1) : ProductsWithSku(items[j].product_sku) # {}
    ELSE 0

RECURSIVE CartTotal(_)
\* lines 127-128, summed over the cart
CartTotal(items) ==
    IF Len(items) = 0 THEN 0
    ELSE LET p == CHOOSE x \in ProductsWithSku(items[1].product_sku) : TRUE
         IN p.price * items[1].quantity + CartTotal(Tail(items))

\* lines 136-137
NewOrderId == "ORD" \o ZFill(Str(Cardinality(orders) + 1), OrderIdWidth)

\* lines 150-156 with a row for the first cart position only
NewOrderItems_FirstOnly(order_id, items) ==
    { [id |-> NextId(order_items),
       order_id |-> order_id,
       product_id |-> (CHOOSE x \in ProductsWithSku(items[1].product_sku) : TRUE).id,
       quantity |-> items[1].quantity] }

\* lines 150-156: one order_items row per cart position
NewOrderItems(order_id, items) ==
    { [id |-> NextId(order_items) + k - 1,
       order_id |-> order_id,
       product_id |-> (CHOOSE x \in ProductsWithSku(items[k].product_sku) : TRUE).id,
       quantity |-> items[k].quantity] : k \in 1..Len(items) }

\* lines 98-175: the tables and the response the request leaves
PlaceOrderOutcome(request) ==
    LET cs == CustomersAfterGetOrCreate(request)
        customer == CHOOSE c \in cs : c.email = request.customer_email
        bad == FirstUnknownSku(request.items)
        order_id == NewOrderId
    IN IF bad # 0
       THEN [customers |-> cs, orders |-> orders, order_items |-> order_items,
             response |-> [success |-> FALSE,
                           message |-> "Product " \o request.items[bad].product_sku
                                           \o " not found"]]
       ELSE IF OrdersWithId(order_id) # {}
       THEN [customers |-> cs, orders |-> orders, order_items |-> order_items,
             response |-> [success |-> FALSE,
                           message |-> "Error placing order: IntegrityError"]]
       ELSE [customers |-> cs,
             orders |-> orders \cup
                 {[id |-> order_id, customer_id |-> customer.id,
                   total |-> CartTotal(request.items), status |-> "pending",
                   order_date |-> now]},
             order_items |-> order_items \cup NewOrderItems(order_id, request.items),
             response |-> [success |-> TRUE, order_id |-> order_id,
                           total |-> CartTotal(request.items),
                           message |-> "Order placed successfully! Your order ID is "
                                           \o order_id]]

PlaceOrderWith(requests) ==
    \E request \in requests :
        LET out == PlaceOrderOutcome(request)
        IN /\ Cardinality(orders) < MaxOrders
           /\ customers' = out.customers
           /\ orders' = out.orders
           /\ order_items' = out.order_items
           /\ last' = Returned("place_order", request, out.response)
           /\ UNCHANGED <<products, returns, now>>
           /\ UNCHANGED <<gate, analysis, knowledge, placing, ui, chatVars>>

PlaceOrder == PlaceOrderWith(PlaceOrderInputs)

----------------------------------------------------------------------------
(* The clock *)

AdvanceClock ==
    \E d \in ClockSteps :
        /\ now + d <= Days(MaxDay)
        /\ now' = now + d
        /\ last' = NoCall
        /\ UNCHANGED <<customers, products, orders, order_items, returns>>
        /\ UNCHANGED <<gate, analysis, knowledge, placing, ui, chatVars>>

----------------------------------------------------------------------------
(* The Domain Store and the Tool Set *)

NoGate == [sql_query |-> "", rejected |-> FALSE, keyword |-> "", executed |-> FALSE]
NoTurn == [phase |-> "idle"]
NoAnalysis == [pc |-> "idle"]

\* the server processes that can each be handling a place_order request
Procs == {1, 2}

\* no place_order request in progress
NoPlacing == [p \in Procs |-> [pc |-> "idle"]]

\* the chat UI not opened: no session state, no threads.json
NoUi == [app |-> "none", threads |-> <<>>, active_thread_id |-> "",
         file |-> <<>>, made |-> 0]

\* agents_cache of app/main.py: two agents, each built by its own create_agent call,
\* and so each with its own MemorySaver (app/agent.py, line 417)
AgentKeys == {"basic", "sql"}

\* str(uuid.uuid4()): the n-th identifier generated
Uuid(n) == "uuid" \o Str(n)

\* the session ids a caller may send: none, or one of its own choice
SessionIdInputs == {"", "s1"}

\* every thread id the checkpointers can be asked about
ThreadIds == (SessionIdInputs \ {""}) \cup {Uuid(n) : n \in 1..MaxTurns}

\* a MemorySaver that has stored nothing
EmptyMemory == [t \in ThreadIds |-> <<>>]

\* the database as seed_database leaves it; no query evaluated, no chat turn made
InitStore ==
    /\ customers = SeedCustomers
    /\ products = SeedProducts
    /\ orders = SeedOrders(SeedTime)
    /\ order_items = SeedOrderItems
    /\ returns = {}
    /\ now = SeedTime
    /\ last = NoCall
    /\ gate = NoGate
    /\ analysis = NoAnalysis
    /\ knowledge = CreatedKnowledgeBase
    /\ placing = NoPlacing
    /\ ui = NoUi
    /\ checkpoints = [a \in AgentKeys |-> EmptyMemory]
    /\ turn = NoTurn
    /\ used_ids = {}
    /\ log = <<>>

NextStore ==
    \/ GetOrderStatus
    \/ InitiateReturn
    \/ ListCustomerOrders
    \/ PlaceOrder
    \/ AdvanceClock

SpecStore == InitStore /\ [][NextStore]_vars

----------------------------------------------------------------------------
(* The shop: place_order with carts of every kind, and seed_database run again *)

\* carts of one and of two products, a cart with a quantity of zero and a negative
\* one (CartItem.quantity is any int), and a cart with an unknown SKU sent by an
\* email that has no customer row
CheckoutInputs ==
    { [customer_name |-> "Ann Lee", customer_email |-> "ann@shop.io", customer_phone |-> "",
       items |-> <<[product_sku |-> "SKU001", quantity |-> 1]>>],
      [customer_name |-> "Ann Lee", customer_email |-> "ann@shop.io", customer_phone |-> "",
       items |-> <<[product_sku |-> "SKU002", quantity |-> 2],
                   [product_sku |-> "SKU001", quantity |-> 1]>>],
      [customer_name |-> "John Doe", customer_email |-> "john@example.com",
       customer_phone |-> "555-0001",
       items |-> <<[product_sku |-> "SKU001", quantity |-> 0],
                   [product_sku |-> "SKU002", quantity |-> -1]>>],
      [customer_name |-> "Eve Roe", customer_email |-> "eve@shop.io", customer_phone |-> "",
       items |-> <<[product_sku |-> "SKU002", quantity |-> 1],
                   [product_sku |-> "SKU404", quantity |-> 1]>>] }

PlaceOrderCheckout == PlaceOrderWith(CheckoutInputs)

\* seed_database of seed_data.py run on the existing database: the rows of
\* order_items, orders, products and customers are deleted (lines 15-18) and the
\* sample rows inserted again; the returns table is not touched.  SQLite does not
\* enforce the foreign key of returns.order_id (no PRAGMA foreign_keys in
\* app/database.py), so the deletion goes through
SeedDatabase ==
    /\ customers' = SeedCustomers
    /\ products' = SeedProducts
    /\ orders' = SeedOrders(now)
    /\ order_items' = SeedOrderItems
    /\ last' = Returned("seed_database", <<>>, [none |-> TRUE])
    /\ UNCHANGED <<returns, now>>
    /\ UNCHANGED <<gate, analysis, knowledge, placing, ui, chatVars>>

InitCheckout ==
    /\ customers = SeedCustomers
    /\ products = SeedProducts
    /\ orders = SeedOrders(SeedTime)
    /\ order_items = SeedOrderItems
    /\ returns = {}
    /\ now = SeedTime
    /\ last = NoCall
    /\ gate = NoGate
    /\ analysis = NoAnalysis
    /\ knowledge = CreatedKnowledgeBase
    /\ placing = NoPlacing
    /\ ui = NoUi
    /\ checkpoints = [a \in AgentKeys |-> EmptyMemory]
    /\ turn = NoTurn
    /\ used_ids = {}
    /\ log = <<>>

NextCheckout ==
    \/ PlaceOrderCheckout
    \/ InitiateReturn
    \/ SeedDatabase

SpecCheckout == InitCheckout /\ [][NextCheckout]_vars

----------------------------------------------------------------------------
(* Properties of the Tool Set *)

\* the two cases of one letter, or the same character
SameCharIgnoringCase(c, d) ==
    \/ c = d
    \/ \E k \in 1..Len(LowerCase) : {c, d} = {Char(LowerCase, k), Char(UpperCase, k)}

\* equality of two strings ignoring letter case
EqualIgnoringCase(a, b) ==
    /\ Len(a) = Len(b)
    /\ \A i \in 1..Len(a) : SameCharIgnoringCase(Char(a, i), Char(b, i))

\* the fields of an order that a result may disclose
OrderFields == {"status", "items", "total", "order_date", "customer_name"}

TheOrder(order_id) == CHOOSE o \in OrdersWithId(order_id) : TRUE

\* C1: on an existing order O, get_order_status(O.id, e) succeeds iff e equals the
\* email of O's customer ignoring letter case; otherwise it returns success=false
\* with the email-mismatch message and none of O's fields.
C1_LookupSucceedsIffEmailMatches ==
    (last.op = "get_order_status" /\ OrdersWithId(last.args.order_id) # {}) =>
        LET O == TheOrder(last.args.order_id)
            e == last.args.customer_email
            r == last.result
        IN /\ ~last.raised
           /\ r.success <=> EqualIgnoringCase(e, CustomerOf(O).email)
           /\ r.success => r.order_id = O.id
           /\ ~r.success =>
                /\ r.message = "The email doesn't match our records for this order."
                /\ DOMAIN r \cap OrderFields = {}
                /\ DOMAIN r = {"success", "message"}

\* C1 witness: a lookup that succeeded with an email written in another letter case
\* than the stored one, on an order whose stored email has capitals
C1_Witness ==
    /\ last.op = "get_order_status"
    /\ OrdersWithId(last.args.order_id) # {}
    /\ last.result.success
    /\ last.args.customer_email # CustomerOf(TheOrder(last.args.order_id)).email
    /\ CustomerOf(TheOrder(last.args.order_id)).email = "Ann@Shop.io"

\* the four preconditions of a return, stated on the call's arguments
ReturnOrderExists(a) == OrdersWithId(a.order_id) # {}
ReturnEmailMatches(a) ==
    /\ ReturnOrderExists(a)
    /\ EqualIgnoringCase(a.customer_email, CustomerOf(TheOrder(a.order_id)).email)
ReturnSkuInOrder(a) ==
    /\ ReturnOrderExists(a)
    /\ \E i \in order_items :
          /\ i.order_id = a.order_id
          /\ \E p \in products : p.id = i.product_id /\ p.sku = a.product_sku
\* the order's age, current time minus order_date, is at most 30 days
ReturnAgeWithinWindow(a) ==
    /\ ReturnOrderExists(a)
    /\ now - TheOrder(a.order_id).order_date <= Days(ReturnWindowDays)
\* the whole days elapsed since the order are at most 30
ReturnWholeDaysWithinWindow(a) ==
    /\ ReturnOrderExists(a)
    /\ (now - TheOrder(a.order_id).order_date) \div TicksPerDay <= ReturnWindowDays

\* the day counts a window message can carry in this model
DayCounts == 0..(MaxDay + 1)

IsReturnCall == last.op = "initiate_return"
ReturnSucceeded == IsReturnCall /\ ~last.raised /\ last.result.success
ReturnFailed == IsReturnCall /\ ~last.raised /\ ~last.result.success

\* C2: initiate_return returns success=true iff the order exists, the email matches
\* ignoring case, the SKU is an item of the order and the order's age (current time
\* minus order_date) is at most 30 days.
C2_ReturnSucceedsIffFourChecks ==
    IsReturnCall =>
        (ReturnSucceeded <=>
            /\ ReturnOrderExists(last.args)
            /\ ReturnEmailMatches(last.args)
            /\ ReturnSkuInOrder(last.args)
            /\ ReturnAgeWithinWindow(last.args))

\* C3: the checks are made in the order exists, email, SKU, window; the message of a
\* failing call is that of the first check that fails, and the four failure messages
\* are pairwise distinct.
C3_FirstFailingCheckDecidesMessage ==
    /\ ReturnFailed =>
         LET a == last.args
             m == last.result.message
         IN /\ (m = MsgOrderNotFound(a.order_id)) <=> ~ReturnOrderExists(a)
            /\ (m = MsgEmailMismatch) <=>
                  (ReturnOrderExists(a) /\ ~ReturnEmailMatches(a))
            /\ (m = MsgProductNotInOrder(a.product_sku, a.order_id)) <=>
                  (ReturnEmailMatches(a) /\ ~ReturnSkuInOrder(a))
            /\ (\E d \in DayCounts : m = MsgWindowExpired(d)) <=>
                  (ReturnEmailMatches(a) /\ ReturnSkuInOrder(a)
                     /\ ~ReturnWholeDaysWithinWindow(a))
    /\ \A o1, o2 \in OrderIdInputs, sku \in SkuInputs, d \in DayCounts :
         Cardinality({MsgOrderNotFound(o1), MsgEmailMismatch,
                      MsgProductNotInOrder(sku, o2), MsgWindowExpired(d)}) = 4

\* C3 witness: a call on an existing order, past its window, with a foreign email and
\* a SKU that is not in the order: three checks would fail, the email one answers
C3_Witness ==
    /\ ReturnFailed
    /\ ReturnOrderExists(last.args)
    /\ ~ReturnEmailMatches(last.args)
    /\ ~ReturnSkuInOrder(last.args)
    /\ ~ReturnWholeDaysWithinWindow(last.args)
    /\ last.result.message = MsgEmailMismatch

\* C4: a failing initiate_return call leaves the returns table as it was.
C4_FailedReturnAddsNoRow ==
    [][(last'.op = "initiate_return" /\ ~last'.raised /\ ~last'.result.success)
          => returns' = returns]_vars

\* C4 witness: a failing call made while the table already holds a row
C4_Witness == ReturnFailed /\ returns # {} /\ ~ReturnWholeDaysWithinWindow(last.args)
                 /\ ReturnSkuInOrder(last.args) /\ ReturnEmailMatches(last.args)

\* RET followed by exactly four decimal digits
IsReturnIdFormat(id) ==
    /\ Len(id) = 7
    /\ SubSeq(id, 1, 3) = "RET"
    /\ IsDigits(SubSeq(id, 4, 7))

ToolOps == {"get_order_status", "initiate_return", "list_customer_orders"}

\* C7: every call of get_order_status, initiate_return and list_customer_orders
\* returns a result with a success boolean and raises nothing.
C7_ToolsNeverRaise ==
    last.op \in ToolOps =>
        /\ ~last.raised
        /\ "success" \in DOMAIN last.result
        /\ last.result.success \in BOOLEAN

CustomerNotFound == [success |-> FALSE, message |-> "No customer found with that email."]

\* the summary is the one of the order: its id, status, total, date and number of items
SummaryIsOf(summary, o) ==
    /\ DOMAIN summary = {"order_id", "status", "total", "date", "items_count"}
    /\ summary.order_id = o.id
    /\ summary.status = o.status
    /\ summary.total = Money(o.total)
    /\ summary.date = FormatDate(o.order_date)
    /\ summary.items_count = Cardinality({i \in order_items : i.order_id = o.id})

\* C15: list_customer_orders(e) gives the not-found failure iff no customer has the
\* email e; otherwise it succeeds with exactly one summary for each order of that
\* customer, no summary of anybody else's order, and items_count counting the
\* order's items.
C15_ListIsExactlyTheCustomersOrders ==
    (last.op = "list_customer_orders" /\ ~last.raised) =>
        LET e == last.args.customer_email
            owners == {c \in customers : c.email = e}
            owned == {o \in orders : \E c \in owners : o.customer_id = c.id}
            summaries == last.result.orders
        IN /\ (last.result = CustomerNotFound) <=> (owners = {})
           /\ owners # {} =>
                /\ last.result.success
                /\ \A o \in owned :
                      Cardinality({k \in DOMAIN summaries :
                                      summaries[k].order_id = o.id}) = 1
                /\ \A k \in DOMAIN summaries :
                      \E o \in owned : SummaryIsOf(summaries[k], o)

\* C15 witness: a customer's list holds its one order while the table holds orders of
\* three other customers, one of them stored under an email that differs only in case
\* from an email that was looked up and not found
C15_Witness ==
    /\ last.op = "list_customer_orders"
    /\ last.args.customer_email = "john@example.com"
    /\ last.result.success
    /\ Len(last.result.orders) = 1
    /\ Cardinality(orders) = 4
    /\ \E c \in customers : c.email = "Ann@Shop.io"

----------------------------------------------------------------------------
(* The knowledge base alone *)

\* the index as get_knowledge_base finds or creates it; nothing searched yet
InitKnowledge ==
    /\ customers = SeedCustomers
    /\ products = SeedProducts
    /\ orders = SeedOrders(SeedTime)
    /\ order_items = SeedOrderItems
    /\ returns = {}
    /\ now = SeedTime
    /\ last = NoCall
    /\ gate = NoGate
    /\ analysis = NoAnalysis
    /\ knowledge \in KnowledgeBases
    /\ placing = NoPlacing
    /\ ui = NoUi
    /\ checkpoints = [a \in AgentKeys |-> EmptyMemory]
    /\ turn = NoTurn
    /\ used_ids = {}
    /\ log = <<>>

NextKnowledge == SearchCompanyKnowledge

SpecKnowledge == InitKnowledge /\ [][NextKnowledge]_vars

(* Properties of search_company_knowledge *)

\* the number of places of s at which k occurs
CountOf(s, k) ==
    Cardinality({i \in 1..Len(s) :
                    i + Len(k) - 1 <= Len(s) /\ SubSeq(s, i, i + Len(k) - 1) = k})

\* the passage under the tag of its own source type
TaggedPassage(doc) == "**Source: " \o doc.metadata.type \o "**\n" \o doc.page_content

\* C16: search_company_knowledge returns at most three passages, each under one
\* source-type tag taken from its metadata; it returns the sentinel sentence iff the
\* index search found no passage, and never an empty string.
C16_SearchGivesTaggedPassagesOrSentinel ==
    (last.op = "search_company_knowledge" /\ ~last.raised) =>
        LET found == last.args.found
            text == last.result
        IN /\ Len(found) <= 3
           /\ (text = NoRelevantInformation) <=> (Len(found) = 0)
           /\ text # ""
           /\ Len(found) > 0 =>
                /\ CountOf(text, "**Source: ") = Len(found)
                /\ text = Join("\n\n", [i \in 1..Len(found) |-> TaggedPassage(found[i])])

\* C16 witness: an index of five chunks, of which the search gave three of two
\* different source types
C16_Witness ==
    /\ last.op = "search_company_knowledge"
    /\ Cardinality(knowledge) = 5
    /\ Len(last.args.found) = 3
    /\ last.args.found[1].metadata.type = "faq"
    /\ last.args.found[2].metadata.type = "policy"
    /\ CountOf(last.result, "**Source: ") = 3

----------------------------------------------------------------------------
(* Query Synthesizer: the safety gate of execute_safe_query *)

\* lines 151-154
DangerousKeywords ==
    <<"INSERT", "UPDATE", "DELETE", "DROP", "ALTER",
      "CREATE", "TRUNCATE", "REPLACE", "GRANT", "REVOKE">>

\* line 156 without the upper() call
QueryUpper_AsWritten(sql_query) == sql_query

\* line 156
QueryUpper(sql_query) == Upper(sql_query)

\* lines 157-159 when no keyword is ever found
FirstDangerous_Nothing(sql_query) == 0

\* lines 157-159: the position in the list of the first keyword found, or 0
FirstDangerous(sql_query) ==
    LET query_upper == QueryUpper(sql_query)
        hits == {k \in 1..Len(DangerousKeywords) :
                    Contains(query_upper, DangerousKeywords[k])}
    IN IF hits = {} THEN 0 ELSE CHOOSE k \in hits : \A j \in hits : k <= j

\* lines 150-162: the gate raises ValueError, or the query goes to db.execute
ExecuteSafeQueryGate(sql_query) ==
    LET k == FirstDangerous(sql_query)
    IN IF k # 0
       THEN [sql_query |-> sql_query, rejected |-> TRUE,
             keyword |-> DangerousKeywords[k], executed |-> FALSE]
       ELSE [sql_query |-> sql_query, rejected |-> FALSE,
             keyword |-> "", executed |-> TRUE]

\* the query texts the model may hand to the gate: a head, a word, a tail
QueryHeads == {"", "SELECT id FROM orders ", "SELECT 1; ",
               "select name from customers where name = '"}
QueryWords == {"", "x", "drop", "Drop", "DROP", "dropped", "Delete", "insert",
               "Update", "updated", "alter", "create", "truncate", "replace",
               "grant", "Revoke"}
QueryTails == {"", " table orders", "'", "_at FROM returns"}
QueryInputs == {h \o w \o t : h \in QueryHeads, w \in QueryWords, t \in QueryTails}

\* schema_info of generate_sql_from_question (lines 71-112): the tables and their
\* columns, as the prompt names them
SchemaInfo ==
    [customers |-> {"id", "name", "email", "phone"},
     orders |-> {"id", "customer_id", "total", "status", "order_date"},
     products |-> {"id", "sku", "name", "price"},
     order_items |-> {"id", "order_id", "product_id", "quantity"},
     returns |-> {"id", "order_id", "product_sku", "reason", "status", "created_at"}]

\* the plain read of one column of one table of the schema
SelectColumn(column, table) == "SELECT " \o column \o " FROM " \o table

SchemaQueries ==
    UNION { {SelectColumn(column, table) : column \in SchemaInfo[table]} :
               table \in DOMAIN SchemaInfo }

GateInputs == QueryInputs \cup SchemaQueries

ExecuteSafeQuery ==
    \E sql_query \in GateInputs :
        /\ gate' = ExecuteSafeQueryGate(sql_query)
        /\ UNCHANGED <<storeVars, analysis, knowledge, placing, ui, chatVars>>

\* no data, no chat turn: only queries are evaluated
InitGate ==
    /\ customers = SeedCustomers
    /\ products = SeedProducts
    /\ orders = SeedOrders(SeedTime)
    /\ order_items = SeedOrderItems
    /\ returns = {}
    /\ now = SeedTime
    /\ last = NoCall
    /\ gate = NoGate
    /\ analysis = NoAnalysis
    /\ knowledge = CreatedKnowledgeBase
    /\ placing = NoPlacing
    /\ ui = NoUi
    /\ checkpoints = [a \in AgentKeys |-> EmptyMemory]
    /\ turn = NoTurn
    /\ used_ids = {}
    /\ log = <<>>

NextGate == ExecuteSafeQuery

SpecGate == InitGate /\ [][NextGate]_vars

(* Properties of the safety gate *)

\* the characters of a token: letters, digits and the underscore
WordChars ==
    {Char(LowerCase, i) : i \in 1..Len(LowerCase)}
        \cup {Char(UpperCase, i) : i \in 1..Len(UpperCase)}
        \cup Digits \cup {"_"}

\* the verb occurs in the query as a whole token, in any letter case
HasToken(q, verb) ==
    \E i \in 1..Len(q) :
        LET j == i + Len(verb) - 1
        IN /\ j <= Len(q)
           /\ EqualIgnoringCase(SubSeq(q, i, j), verb)
           /\ (i = 1 \/ Char(q, i - 1) \notin WordChars)
           /\ (j = Len(q) \/ Char(q, j + 1) \notin WordChars)

DeniedVerbs == {"insert", "update", "delete", "drop", "alter",
                "create", "truncate", "replace", "grant", "revoke"}

\* C6: the safety gate rejects, before any execution, every query that contains one
\* of the ten denylisted verbs as a whole token, at any position, in any letter case.
C6_GateRejectsDeniedVerbs ==
    (\E verb \in DeniedVerbs : HasToken(gate.sql_query, verb)) =>
        (gate.rejected /\ ~gate.executed)

\* C6 witness: a rejected query whose verb is in lower case, after another statement
C6_Witness ==
    /\ gate.sql_query = "SELECT 1; drop table orders"
    /\ gate.rejected
    /\ gate.keyword = "DROP"

----------------------------------------------------------------------------
(* Query Synthesizer: generate_sql_from_question *)

Whitespace == {" ", "\n", "\t"}

RECURSIVE LStrip(_)
LStrip(s) ==
    IF Len(s) > 0 /\ Char(s, 1) \in Whitespace THEN LStrip(SubSeq(s, 2, Len(s))) ELSE s

RECURSIVE RStrip(_)
RStrip(s) ==
    IF Len(s) > 0 /\ Char(s, Len(s)) \in Whitespace
    THEN RStrip(SubSeq(s, 1, Len(s) - 1)) ELSE s

\* str.strip()
Strip(s) == RStrip(LStrip(s))

RECURSIVE Remove(_, _)
\* s.replace(old, ""): every occurrence of old, found from left to right, is taken out
Remove(s, old) ==
    IF Len(s) < Len(old) THEN s
    ELSE IF SubSeq(s, 1, Len(old)) = old
         THEN Remove(SubSeq(s, Len(old) + 1, Len(s)), old)
         ELSE Char(s, 1) \o Remove(SubSeq(s, 2, Len(s)), old)

\* the markdown fence: three grave accents (the apostrophe closes the quotation
\* a grave accent opens for the parser and is cut off)
Fence == SubSeq("```'", 1, 3)

\* lines 139-140: response.content.strip(), then the fences are taken out
StripFences(content) ==
    Strip(Remove(Remove(Strip(content), Fence \o "sql"), Fence))

\* the statements the language model may write
CountPending == "SELECT COUNT(*) FROM orders WHERE status='pending'"
CountByStatus == "SELECT status, COUNT(*) FROM orders GROUP BY status"
SumTotals == "SELECT SUM(total) FROM orders"
SumOfCancelled == "SELECT SUM(total) FROM orders WHERE status='cancelled'"
AvgTotals == "SELECT AVG(total) FROM orders"
ListOrders == "SELECT id, status FROM orders LIMIT 10"
ListCancelled == "SELECT id FROM orders WHERE status='cancelled'"
Misspelt == "SELEC id FROM orders"
DeleteOrders == "DELETE FROM orders"
DropOrders == "drop table orders"

\* a statement inside a markdown code block
Fenced(language, statement) == Fence \o language \o "\n" \o statement \o "\n" \o Fence

\* the content of the model's response (line 136): a statement, bare, padded or
\* inside markdown fences
LlmContents ==
    { CountPending, Fenced("sql", CountPending), CountByStatus,
      " " \o SumTotals \o "\n", Fenced("", SumOfCancelled),
      Fenced("sql", AvgTotals), ListOrders, Fenced("SQL", ListOrders),
      ListCancelled, Misspelt, Fenced("sql", DeleteOrders), DropOrders }

\* llm.invoke(prompt), line 136: a response, or an exception of the client
LlmOutcomes ==
    {[raised |-> TRUE, exception |-> "ResourceExhausted: 429 quota exceeded",
      content |-> ""]}
        \cup {[raised |-> FALSE, exception |-> "", content |-> c] : c \in LlmContents}

QuestionInputs == {"How many orders are pending?", "What is the revenue?"}

----------------------------------------------------------------------------
(* Query Synthesizer: execution and the gloss *)

\* a value of a result row under its column name; a REAL is the fraction num/den
\* of cents
Cell(column, type, num, den, text) ==
    [column |-> column, type |-> type, num |-> num, den |-> den, text |-> text]

IntCell(column, n) == Cell(column, "int", n, 1, "")

RealCell(column, num, den) == Cell(column, "real", num, den, "")

TextCell(column, text) == Cell(column, "text", 0, 1, text)

NullCell(column) == Cell(column, "null", 0, 1, "")

RECURSIVE SumOf(_)
\* SUM(total) over a set of orders, in cents
SumOf(rows) ==
    IF rows = {} THEN 0
    ELSE LET r == CHOOSE x \in rows : TRUE IN r.total + SumOf(rows \ {r})

OrdersWithStatus(status) == {o \in orders : o.status = status}

\* the values of orders.status, in the order GROUP BY gives the groups
Statuses == <<"cancelled", "delivered", "pending", "shipped">>

\* SUM and AVG of no row are NULL
Aggregate(column, rows, den) ==
    IF rows = {} THEN NullCell(column) ELSE RealCell(column, SumOf(rows), den)

\* the rows SQLite gives for a statement it can run as a query
SelectRows(sql_query) ==
    CASE sql_query = CountPending ->
            << <<IntCell("COUNT(*)", Cardinality(OrdersWithStatus("pending")))>> >>
      [] sql_query = CountByStatus ->
            LET groups == SelectSeq(Statuses, LAMBDA st : OrdersWithStatus(st) # {})
            IN [k \in 1..Len(groups) |->
                   <<TextCell("status", groups[k]),
                     IntCell("COUNT(*)", Cardinality(OrdersWithStatus(groups[k])))>>]
      [] sql_query = SumTotals ->
            << <<Aggregate("SUM(total)", orders, 1)>> >>
      [] sql_query = SumOfCancelled ->
            << <<Aggregate("SUM(total)", OrdersWithStatus("cancelled"), 1)>> >>
      [] sql_query = AvgTotals ->
            << <<Aggregate("AVG(total)", orders, Cardinality(orders))>> >>
      [] sql_query = ListOrders ->
            LET rows == SeqOf(orders)
            IN [k \in 1..Len(rows) |->
                   <<TextCell("id", rows[k].id), TextCell("status", rows[k].status)>>]
      [] sql_query = ListCancelled ->
            LET rows == SeqOf(OrdersWithStatus("cancelled"))
            IN [k \in 1..Len(rows) |-> <<TextCell("id", rows[k].id)>>]

SelectStatements ==
    {CountPending, CountByStatus, SumTotals, SumOfCancelled, AvgTotals, ListOrders,
     ListCancelled}

\* f"{value}"
PyStr(cell) ==
    CASE cell.type = "int" -> Str(cell.num)
      [] cell.type = "text" -> cell.text
      [] cell.type = "null" -> "None"
      [] cell.type = "real" ->
            LET cents == cell.num \div cell.den
            IN Str(cents \div 100) \o "." \o ZFill(Str(cents % 100), 2)

\* f"{value:.2f}" of a number: rounded to the nearest hundredth
Fixed2(cell) ==
    LET cents == IF cell.type = "int" THEN 100 * cell.num
                 ELSE (2 * cell.num + cell.den) \div (2 * cell.den)
    IN Str(cents \div 100) \o "." \o ZFill(Str(cents % 100), 2)

\* isinstance(value, (int, float))
IsNumber(cell) == cell.type \in {"int", "real"}

\* generate_result_explanation, lines 183-205
GenerateResultExplanation(sql_query, data) ==
    IF Len(data) = 0 THEN "No results found."
    ELSE LET first == data[1][1]
             upper == Upper(sql_query)
         IN IF Contains(upper, "COUNT")
            THEN "Found " \o PyStr(first) \o " records matching your criteria."
            ELSE IF Contains(upper, "SUM")
            THEN IF IsNumber(first) THEN "Total sum: $" \o Fixed2(first)
                 ELSE "Total: " \o PyStr(first)
            ELSE IF Contains(upper, "AVG")
            THEN IF IsNumber(first) THEN "Average value: " \o Fixed2(first)
                 ELSE "Average: " \o PyStr(first)
            ELSE "Retrieved " \o Str(Len(data)) \o " record(s)."

\* lines 162-171: db.execute(text(sql_query)) and result.fetchall().  A SELECT gives
\* its rows.  DELETE runs inside the session's transaction and DROP TABLE takes
\* effect at once; neither gives rows, so fetchall raises.  Anything else is not a
\* statement SQLite can run.
DbExecute(sql_query) ==
    IF sql_query \in SelectStatements
    THEN [raised |-> FALSE, exception |-> "", data |-> SelectRows(sql_query),
          uncommitted |-> FALSE]
    ELSE IF Upper(sql_query) = Upper(DeleteOrders)
    THEN [raised |-> TRUE, data |-> <<>>, uncommitted |-> TRUE,
          exception |-> "ResourceClosedError: This result object does not return rows."]
    ELSE IF Upper(sql_query) = Upper(DropOrders)
    THEN [raised |-> TRUE, data |-> <<>>, uncommitted |-> FALSE,
          exception |-> "ResourceClosedError: This result object does not return rows."]
    ELSE [raised |-> TRUE, data |-> <<>>, uncommitted |-> FALSE,
          exception |-> "OperationalError: near \"" \o sql_query \o "\": syntax error"]

\* the orders table once the statement has been executed: DROP TABLE is not held
\* back by the open transaction
OrdersAfterExecute(sql_query) ==
    IF Upper(sql_query) = Upper(DropOrders) THEN {} ELSE orders

----------------------------------------------------------------------------
(* Analytical path: query_database *)

\* line 36: the call has opened its database session and nothing else
QueryDatabaseCalled(question) ==
    [pc |-> "synthesizing", question |-> question, session |-> "open",
     content |-> "", sql_query |-> "", checked |-> <<>>, sent |-> <<>>, data |-> <<>>,
     explanation |-> "", error |-> "", uncommitted |-> FALSE]

\* line 40, generate_sql_from_question: the model's answer without its fences, or the
\* exception of the model's client
AfterSynthesis(a, llm) ==
    IF llm.raised
    THEN [a EXCEPT !.pc = "failed", !.error = llm.exception]
    ELSE [a EXCEPT !.pc = "gating", !.content = llm.content,
                   !.sql_query = StripFences(llm.content)]

\* lines 150-159 when the loop over the keywords only notes what it finds
AfterGate_NotingOnly(a) ==
    [a EXCEPT !.pc = "executing", !.checked = Append(@, a.sql_query)]

\* lines 150-159: the denylist check of the text execute_safe_query was given
AfterGate(a) ==
    LET g == ExecuteSafeQueryGate(a.sql_query)
    IN IF g.rejected
       THEN [a EXCEPT !.pc = "failed", !.checked = Append(@, a.sql_query),
                      !.error = "Dangerous operation detected: " \o g.keyword]
       ELSE [a EXCEPT !.pc = "executing", !.checked = Append(@, a.sql_query)]

\* lines 162-180: the text is sent to the database, the rows are fetched and glossed
AfterExecute(a) ==
    LET r == DbExecute(a.sql_query)
    IN IF r.raised
       THEN [a EXCEPT !.pc = "failed", !.sent = Append(@, a.sql_query),
                      !.error = r.exception, !.uncommitted = r.uncommitted]
       ELSE [a EXCEPT !.pc = "succeeded", !.sent = Append(@, a.sql_query),
                      !.data = r.data,
                      !.explanation = GenerateResultExplanation(a.sql_query, r.data)]

RephraseMessage == "I couldn't execute that query. Please rephrase your question."

\* lines 54-59 with the query added to the failure envelope
QueryDatabaseEnvelope_WithQuery(a) ==
    IF a.pc = "succeeded"
    THEN [success |-> TRUE, question |-> a.question, sql_query |-> a.sql_query,
          results |-> a.data, row_count |-> Len(a.data), explanation |-> a.explanation]
    ELSE [success |-> FALSE, error |-> a.error, message |-> RephraseMessage,
          sql_query |-> a.sql_query]

\* lines 45-59: what query_database returns
QueryDatabaseEnvelope(a) ==
    IF a.pc = "succeeded"
    THEN [success |-> TRUE, question |-> a.question, sql_query |-> a.sql_query,
          results |-> a.data, row_count |-> Len(a.data), explanation |-> a.explanation]
    ELSE [success |-> FALSE, error |-> a.error, message |-> RephraseMessage]

\* lines 61-62: db.close() ends the session; what it did not commit is rolled back
AfterClose(a) ==
    [a EXCEPT !.pc = "returned", !.session = "closed", !.uncommitted = FALSE]

\* the model asks for query_database
QueryDatabaseCall ==
    \E question \in QuestionInputs :
        /\ analysis.pc \in {"idle", "returned"}
        /\ analysis' = QueryDatabaseCalled(question)
        /\ UNCHANGED <<storeVars, gate, knowledge, placing, ui, chatVars>>

Synthesize ==
    /\ analysis.pc = "synthesizing"
    /\ \E llm \in LlmOutcomes : analysis' = AfterSynthesis(analysis, llm)
    /\ UNCHANGED <<storeVars, gate, knowledge, placing, ui, chatVars>>

Gate ==
    /\ analysis.pc = "gating"
    /\ analysis' = AfterGate(analysis)
    /\ gate' = ExecuteSafeQueryGate(analysis.sql_query)
    /\ UNCHANGED <<storeVars, knowledge, placing, ui, chatVars>>

Execute ==
    /\ analysis.pc = "executing"
    /\ analysis' = AfterExecute(analysis)
    /\ orders' = OrdersAfterExecute(analysis.sql_query)
    /\ UNCHANGED <<customers, products, order_items, returns, now, last>>
    /\ UNCHANGED <<gate, knowledge, placing, ui, chatVars>>

QueryDatabaseReturn ==
    /\ analysis.pc \in {"succeeded", "failed"}
    /\ analysis' = AfterClose(analysis)
    /\ last' = Returned("query_database", [question |-> analysis.question],
                        QueryDatabaseEnvelope(analysis))
    /\ UNCHANGED <<customers, products, orders, order_items, returns, now>>
    /\ UNCHANGED <<gate, knowledge, placing, ui, chatVars>>

\* the seeded database; query_database not called yet
InitQuery ==
    /\ customers = SeedCustomers
    /\ products = SeedProducts
    /\ orders = SeedOrders(SeedTime)
    /\ order_items = SeedOrderItems
    /\ returns = {}
    /\ now = SeedTime
    /\ last = NoCall
    /\ gate = NoGate
    /\ analysis = NoAnalysis
    /\ knowledge = CreatedKnowledgeBase
    /\ placing = NoPlacing
    /\ ui = NoUi
    /\ checkpoints = [a \in AgentKeys |-> EmptyMemory]
    /\ turn = NoTurn
    /\ used_ids = {}
    /\ log = <<>>

NextQuery ==
    \/ QueryDatabaseCall
    \/ Synthesize
    \/ Gate
    \/ Execute
    \/ QueryDatabaseReturn

SpecQuery == InitQuery /\ [][NextQuery]_vars

(* Properties of the analytical path *)

Tables == <<customers, orders, products, order_items, returns>>

\* a call of query_database has returned and is the latest call made
QueryReturned == analysis.pc = "returned" /\ last.op = "query_database"

\* C12: query_database never raises; when synthesis fails, the gate rejects or the
\* execution fails it returns the failure envelope: success=false, the rephrase
\* message, the reason in error, and no results, row_count or sql_query; the database
\* session is closed on every path.
C12_FailureEnvelope ==
    /\ last.op = "query_database" => ~last.raised
    /\ analysis.pc = "returned" => analysis.session = "closed"
    /\ QueryReturned =>
         /\ (analysis.error # "") <=> ~last.result.success
         /\ ~last.result.success =>
               /\ DOMAIN last.result = {"success", "error", "message"}
               /\ last.result.message = RephraseMessage
               /\ last.result.error = analysis.error

\* C12 witness: a call that failed in the execution, after the gate had let the
\* text pass, has returned
C12_Witness ==
    /\ QueryReturned
    /\ ~last.result.success
    /\ analysis.sent = <<Misspelt>>
    /\ analysis.session = "closed"

\* C14: no step of query_database changes a table of the Domain Store, so the tables
\* after the call are those before it, whether the call succeeds or fails.
C14_AnalyticalPathReadOnly == [][Tables' = Tables]_vars

\* C14 witness: a call whose statement was DROP TABLE orders has returned and the
\* orders are still there
C14_Witness ==
    /\ QueryReturned
    /\ analysis.sql_query = DropOrders
    /\ gate.sql_query = DropOrders
    /\ ~last.result.success
    /\ orders = SeedOrders(SeedTime)

\* what the statements of the model ask for
CountingAggregates == {CountPending, CountByStatus}
SumAggregates == {SumTotals, SumOfCancelled}
AvgAggregates == {AvgTotals}

\* the numbers a result holds under a column
NumbersOf(data, column) ==
    {c \in UNION {{data[i][j] : j \in DOMAIN data[i]} : i \in DOMAIN data} :
        c.column = column /\ c.type \in {"int", "real"}}

\* an amount of num/den cents, rounded to the cent and written with two decimals
TwoDecimals(num, den) ==
    LET cents == (2 * num + den) \div (2 * den)
    IN Str(cents \div 100) \o "." \o ZFill(Str(cents % 100), 2)

\* C17: the gloss of a result reports the count if the query is a counting
\* aggregate, the sum as currency if it is a sum, the average with two decimals if
\* it is an average, and the number of rows otherwise; for
\* SELECT COUNT(*) ... WHERE status='pending' it reports the count of the first row.
C17_GlossReportsByQueryKind ==
    (last.op = "query_database" /\ last.result.success /\ last.result.row_count > 0) =>
        LET q == last.result.sql_query
            data == last.result.results
            gloss == last.result.explanation
        IN /\ q \in CountingAggregates =>
                \E c \in NumbersOf(data, "COUNT(*)") :
                    gloss = "Found " \o Str(c.num) \o " records matching your criteria."
           /\ q \in SumAggregates =>
                \A c \in NumbersOf(data, "SUM(total)") :
                    gloss = "Total sum: $" \o TwoDecimals(c.num, c.den)
           /\ q \in AvgAggregates =>
                \A c \in NumbersOf(data, "AVG(total)") :
                    gloss = "Average value: " \o TwoDecimals(c.num, c.den)
           /\ q \notin (CountingAggregates \cup SumAggregates \cup AvgAggregates) =>
                gloss = "Retrieved " \o Str(Len(data)) \o " record(s)."
           /\ q = CountPending =>
                gloss = "Found " \o Str(data[1][1].num) \o " records matching your criteria."

\* the text has no fence left and no white space around it
IsStripped(text) == ~Contains(text, Fence) /\ Strip(text) = text

\* what has been sent to the database was checked by the gate before, and passed
SentPassedTheGate ==
    analysis.pc # "idle" =>
        /\ \A i \in DOMAIN analysis.checked : IsStripped(analysis.checked[i])
        /\ \A i \in DOMAIN analysis.sent :
              /\ analysis.checked = <<analysis.sent[i]>>
              /\ gate.sql_query = analysis.sent[i]
              /\ ~gate.rejected
              /\ \A verb \in DeniedVerbs : ~HasToken(analysis.sent[i], verb)

\* a step that sends a text to the database comes after the gate's check of that
\* very text, which comes after the fences were stripped
SentAfterGate ==
    (analysis.pc # "idle" /\ analysis'.sent \notin {<<>>, analysis.sent}) =>
        /\ analysis.checked = <<analysis.sql_query>>
        /\ analysis'.sent = <<analysis.sql_query>>

\* C20: the fences are stripped, then the gate checks the stripped text, then it is
\* executed; a text the gate rejects is never sent to the Domain Store, and the text
\* executed is the text that passed the gate.
C20_StripThenGateThenExecute == [][SentPassedTheGate' /\ SentAfterGate]_vars

\* C20 witness: a fenced answer was checked and executed without its fences
C20_Witness ==
    /\ QueryReturned
    /\ analysis.content = Fenced("sql", AvgTotals)
    /\ analysis.checked = <<AvgTotals>>
    /\ analysis.sent = <<AvgTotals>>
    /\ last.result.success

----------------------------------------------------------------------------
(* Agent Loop and Session Store: chat of app/main.py *)

\* create_agent, lines 408-413: the tools every agent is given
BaseTools ==
    {"get_order_status", "search_company_knowledge", "initiate_return",
     "list_customer_orders"}

\* create_agent with the analytical tool in every catalog
ToolCatalog_AlwaysAnalytical(enable_sql_queries) == BaseTools \cup {"query_database"}

\* create_agent(api_key, enable_sql_queries), which app/agent.py of src/ does not
\* define: the analytical tool is in the catalog when the capability is enabled
ToolCatalog(enable_sql_queries) ==
    BaseTools \cup (IF enable_sql_queries THEN {"query_database"} ELSE {})

\* agents_cache, lines 29-32 of app/main.py: the catalog of each cached agent
AgentTools(key) == ToolCatalog(key = "sql")

\* the bodies of ChatRequest a caller may send
ChatRequests ==
    [message : {"where is my order?"},
     customer_email : {"", "john@example.com"},
     session_id : SessionIdInputs \cup used_ids,
     enable_sql_queries : BOOLEAN]

\* line 200: request.session_id or str(uuid.uuid4()); a generated id is new
SessionIdOf(request) ==
    IF request.session_id = "" THEN Uuid(Cardinality(used_ids) + 1)
    ELSE request.session_id

\* line 203
AgentKeyOf(request) == IF request.enable_sql_queries THEN "sql" ELSE "basic"

\* line 204: get_system_prompt, which app/agent.py of src/ does not define
SystemPromptOf(enable_sql_queries) ==
    IF enable_sql_queries THEN "SYSTEM_PROMPT with the analytical tool"
    ELSE "SYSTEM_PROMPT"

\* lines 207-210 without the test of line 208: the annotation is always written
UserMessageOf_AlwaysAnnotated(request) ==
    "[Customer Email: " \o request.customer_email \o "]\n" \o request.message

\* lines 207-210
UserMessageOf(request) ==
    IF request.customer_email # ""
    THEN "[Customer Email: " \o request.customer_email \o "]\n" \o request.message
    ELSE request.message

\* line 213 with one thread id for every session
ThreadIdOf_Constant(session_id) == "s1"

\* line 213: config = {"configurable": {"thread_id": session_id}}
ThreadIdOf(session_id) == session_id

\* a message of the history; turn is the number of the chat turn that added it
Message(role, content, k) ==
    [role |-> role, content |-> content, turn |-> k,
     tool_calls |-> <<>>, name |-> "", result |-> [none |-> TRUE]]

\* lines 217-218: state.values.get("messages", [])
StoredMessages(key, thread) == checkpoints[key][thread]

\* lines 223-227 with the system instruction prepended on every turn
InputMessages_AlwaysSystem(request, is_new_session, k) ==
    <<Message("system", SystemPromptOf(request.enable_sql_queries), k),
      Message("human", UserMessageOf(request), k)>>

\* lines 223-227
InputMessages(request, is_new_session, k) ==
    (IF is_new_session
     THEN <<Message("system", SystemPromptOf(request.enable_sql_queries), k)>>
     ELSE <<>>)
        \o <<Message("human", UserMessageOf(request), k)>>

\* a checkpointer that keeps only the latest messages of the turn's thread
Checkpointed_Replacing(msgs) ==
    [checkpoints EXCEPT ![turn.agent][turn.thread] = msgs]

\* the checkpointer of the turn's agent with the messages added to the turn's thread
Checkpointed(msgs) ==
    [checkpoints EXCEPT ![turn.agent][turn.thread] = @ \o msgs]

\* the log with the messages added to what the current turn has stored
Logged(msgs) ==
    [log EXCEPT ![Len(log)].appended = @ \o msgs]

\* lines 199-233, up to the first call of the model: the session id, the agent, the
\* lookup of the stored history, the input messages, and agent.invoke storing them
\* under the thread id
ChatBeginWith(requests) ==
    \E request \in requests :
        LET session_id == SessionIdOf(request)
            key == AgentKeyOf(request)
            thread == ThreadIdOf(session_id)
            prior == StoredMessages(key, thread)
            k == Len(log) + 1
            messages == InputMessages(request, Len(prior) = 0, k)
        IN /\ turn.phase = "idle"
           /\ Len(log) < MaxTurns
           /\ checkpoints' = [checkpoints EXCEPT ![key][thread] = prior \o messages]
           /\ turn' = [phase |-> "awaiting_model", request |-> request,
                       session_id |-> session_id, agent |-> key, thread |-> thread,
                       rounds |-> 0, pending |-> <<>>]
           /\ used_ids' = used_ids \cup {session_id}
           /\ log' = Append(log, [session_id |-> session_id, agent |-> key,
                                  request |-> request, prior |-> prior,
                                  given |-> prior \o messages,
                                  appended |-> messages, done |-> FALSE,
                                  dispatched |-> <<>>,
                                  failed_at |-> 0, escaped |-> FALSE])
           /\ last' = NoCall
           /\ UNCHANGED <<customers, products, orders, order_items, returns, now, gate, analysis, knowledge, placing, ui>>

ChatBegin == ChatBeginWith(ChatRequests)

\* the tool calls one model response may ask for, in the order it asks for them
ToolCallBatches ==
    { << [name |-> "get_order_status",
          args |-> [order_id |-> "ORD001", customer_email |-> "john@example.com"]],
         [name |-> "list_customer_orders",
          args |-> [customer_email |-> "John@Example.COM"]] >> }

AnswerInputs == {"Your order ORD001 was delivered."}

\* create_react_agent (app/agent.py, lines 419-423): the model is called with the
\* whole stored history of the thread and its response is stored; a response without
\* tool calls ends the loop, one with tool calls is dispatched
ModelRespondsWith(batches) ==
    /\ turn.phase = "awaiting_model"
    /\ \/ \E answer \in AnswerInputs :
            LET m == Message("ai", answer, Len(log))
            IN /\ checkpoints' = Checkpointed(<<m>>)
               /\ log' = Logged(<<m>>)
               /\ turn' = [turn EXCEPT !.phase = "done"]
       \/ \E batch \in batches :
            LET m == [Message("ai", "", Len(log)) EXCEPT !.tool_calls = batch]
            IN /\ turn.rounds < MaxRounds
               /\ checkpoints' = Checkpointed(<<m>>)
               /\ log' = Logged(<<m>>)
               /\ turn' = [turn EXCEPT !.phase = "dispatching_tools",
                                       !.pending = batch,
                                       !.rounds = @ + 1]
    /\ UNCHANGED <<storeVars, gate, analysis, knowledge, placing, ui, used_ids>>

ModelResponds == ModelRespondsWith(ToolCallBatches)

\* what a read-only tool called gives back
ToolResultOf(call) ==
    IF call.name = "get_order_status"
    THEN GetOrderStatusResult(call.args.order_id, call.args.customer_email)
    ELSE ListCustomerOrdersResult(call.args.customer_email)

\* the random numbers and the synthesizer answers explored inside chat turns
ChatDraws == {CHOOSE n \in ReturnIdDraws : TRUE}
ChatLlmOutcomes ==
    {o \in LlmOutcomes : o.content \in {Fenced("sql", CountPending), DropOrders}}

\* query_database from its call to its return, for one answer of the synthesizer
QueryDatabaseRun(question, llm) ==
    LET synthesized == AfterSynthesis(QueryDatabaseCalled(question), llm)
        gated == IF synthesized.pc = "gating" THEN AfterGate(synthesized)
                 ELSE synthesized
    IN IF gated.pc = "executing" THEN AfterExecute(gated) ELSE gated

\* what dispatching a call can do: the value returned or the exception raised, and
\* the tables the tool writes
ToolOutcomes(call) ==
    CASE call.name = "initiate_return" ->
            {[raised |-> out.last.raised, result |-> out.last.result,
              returns |-> out.returns, orders |-> orders] :
                out \in {InitiateReturnOutcome(call.args, n) : n \in ChatDraws}}
      [] call.name = "query_database" ->
            {[raised |-> FALSE, result |-> QueryDatabaseEnvelope(a),
              returns |-> returns,
              orders |-> IF a.sent # <<>> THEN OrdersAfterExecute(a.sql_query)
                         ELSE orders] :
                a \in {QueryDatabaseRun(call.args.question, llm) :
                          llm \in ChatLlmOutcomes}}
      [] OTHER ->
            {[raised |-> FALSE, result |-> ToolResultOf(call),
              returns |-> returns, orders |-> orders]}

\* the turn in progress once message m is stored and the call at the head of the
\* pending ones is dealt with: the next call, or the model again after the last one
AfterCall(m) ==
    /\ checkpoints' = Checkpointed(<<m>>)
    /\ turn' = [turn EXCEPT
                  !.pending = Tail(@),
                  !.phase = IF Tail(turn.pending) = <<>>
                            THEN "awaiting_model" ELSE "dispatching_tools"]

\* the log with the call noted as dispatched in the current turn
Dispatched(entries, call) ==
    [entries EXCEPT ![Len(log)].dispatched = Append(@, call.name)]

\* the log with the current turn noted as one in which a tool raised, and how many
\* messages the turn had stored by then
Failed(entries) ==
    [entries EXCEPT ![Len(log)].failed_at =
        IF @ = 0 THEN Len(log[Len(log)].appended) ELSE @]

\* the tools node: the next requested call is executed and its result is stored as a
\* tool message; after the last one the model is called again.  A name that is not
\* in the agent's catalog is answered with an error message and nothing is called.
\* When the tool raises, either the tools node turns the exception into an error
\* message for the model, or the exception leaves agent.invoke and, chat having no
\* handler around it (app/main.py, lines 230-233), leaves chat
DispatchTool ==
    /\ turn.phase = "dispatching_tools"
    /\ turn.pending # <<>>
    /\ LET call == Head(turn.pending)
           tool == [Message("tool", "", Len(log)) EXCEPT !.name = call.name]
           unknown == [tool EXCEPT
                         !.content = "Error: " \o call.name \o " is not a valid tool"]
       IN IF call.name \notin AgentTools(turn.agent)
          THEN /\ AfterCall(unknown)
               /\ log' = Logged(<<unknown>>)
               /\ UNCHANGED <<orders, returns, last>>
          ELSE \E out \in ToolOutcomes(call) :
                  LET answered == [tool EXCEPT !.result = out.result]
                      error == [tool EXCEPT
                                  !.content = "Error: " \o out.result.exception]
                  IN /\ orders' = out.orders
                     /\ returns' = out.returns
                     /\ IF ~out.raised
                        THEN /\ AfterCall(answered)
                             /\ log' = Dispatched(Logged(<<answered>>), call)
                             /\ UNCHANGED last
                        ELSE \/ /\ AfterCall(error)
                                /\ log' = Dispatched(Failed(Logged(<<error>>)), call)
                                /\ UNCHANGED last
                             \/ /\ turn' = NoTurn
                                /\ log' = [Dispatched(Failed(log), call)
                                             EXCEPT ![Len(log)].escaped = TRUE]
                                /\ last' = Raised("chat", turn.request,
                                                  out.result.exception)
                                /\ UNCHANGED checkpoints
    /\ UNCHANGED <<customers, products, order_items, now>>
    /\ UNCHANGED <<gate, analysis, knowledge, placing, ui, used_ids>>

\* lines 235-241: the answer is the content of the last message of the result
ChatReturn ==
    /\ turn.phase = "done"
    /\ LET messages == StoredMessages(turn.agent, turn.thread)
       IN last' = Returned("chat", turn.request,
                           [response |-> messages[Len(messages)].content,
                            session_id |-> turn.session_id])
    /\ log' = [log EXCEPT ![Len(log)].done = TRUE]
    /\ turn' = NoTurn
    /\ UNCHANGED <<customers, products, orders, order_items, returns, now>>
    /\ UNCHANGED <<gate, analysis, knowledge, placing, ui, checkpoints, used_ids>>

\* the seeded database, empty checkpointers, no request in progress
InitChat ==
    /\ customers = SeedCustomers
    /\ products = SeedProducts
    /\ orders = SeedOrders(SeedTime)
    /\ order_items = SeedOrderItems
    /\ returns = {}
    /\ now = SeedTime
    /\ last = NoCall
    /\ gate = NoGate
    /\ analysis = NoAnalysis
    /\ knowledge = CreatedKnowledgeBase
    /\ placing = NoPlacing
    /\ ui = NoUi
    /\ checkpoints = [a \in AgentKeys |-> EmptyMemory]
    /\ turn = NoTurn
    /\ used_ids = {}
    /\ log = <<>>

NextChat ==
    \/ ChatBegin
    \/ ModelResponds
    \/ DispatchTool
    \/ ChatReturn

SpecChat == InitChat /\ [][NextChat]_vars

(* The chat operation with tools that write and tools that raise *)

\* requests of a signed-in customer, with and without the analytical capability
DispatchRequests ==
    [message : {"I want to return my headphones"},
     customer_email : {"john@example.com"},
     session_id : SessionIdInputs,
     enable_sql_queries : BOOLEAN]

ReturnCall ==
    [name |-> "initiate_return",
     args |-> [order_id |-> "ORD001", product_sku |-> "SKU001",
               reason |-> "defective", customer_email |-> "john@example.com"]]

OrdersCall ==
    [name |-> "list_customer_orders", args |-> [customer_email |-> "john@example.com"]]

AnalysisCall ==
    [name |-> "query_database", args |-> [question |-> "How many orders are pending?"]]

\* the model asks for a return and then for the customer's orders, or for an analysis
DispatchBatches == { <<ReturnCall, OrdersCall>>, <<AnalysisCall>> }

ChatBeginDispatch == ChatBeginWith(DispatchRequests)

ModelRespondsDispatch == ModelRespondsWith(DispatchBatches)

InitDispatch ==
    /\ customers = SeedCustomers
    /\ products = SeedProducts
    /\ orders = SeedOrders(SeedTime)
    /\ order_items = SeedOrderItems
    /\ returns = {}
    /\ now = SeedTime
    /\ last = NoCall
    /\ gate = NoGate
    /\ analysis = NoAnalysis
    /\ knowledge = CreatedKnowledgeBase
    /\ placing = NoPlacing
    /\ ui = NoUi
    /\ checkpoints = [a \in AgentKeys |-> EmptyMemory]
    /\ turn = NoTurn
    /\ used_ids = {}
    /\ log = <<>>

NextDispatch ==
    \/ ChatBeginDispatch
    \/ ModelRespondsDispatch
    \/ DispatchTool
    \/ ChatReturn

SpecDispatch == InitDispatch /\ [][NextDispatch]_vars

(* Properties of the Session Store *)

\* the messages of a history that chat turn k added
AddedBy(history, k) == SelectSeq(history, LAMBDA m : m.turn = k)

\* C8: of two chat turns with the same session_id, whatever their enable_sql_queries
\* and customer_email, the history given to the model on the second holds every
\* message the first stored, in the same order, and ends with the second turn's user
\* message.
C8_SessionContinuity ==
    \A k1, k2 \in 1..Len(log) :
        (k1 < k2 /\ log[k1].done /\ log[k1].session_id = log[k2].session_id) =>
            LET given == log[k2].given
                newest == given[Len(given)]
            IN /\ AddedBy(given, k1) = log[k1].appended
               /\ newest.role = "human"
               /\ newest.turn = k2
               /\ newest.content = UserMessageOf(log[k2].request)

\* the history a turn found stored holds only messages of earlier turns made with the
\* turn's own session id
SeesOnlyOwnSession ==
    \A k \in 1..Len(log) :
        \A i \in 1..Len(log[k].prior) :
            /\ log[k].prior[i].turn < k
            /\ log[log[k].prior[i].turn].session_id = log[k].session_id

\* the first turn on a session id finds nothing stored
FreshSessionSeesNothing ==
    \A k \in 1..Len(log) :
        (\A j \in 1..(k - 1) : log[j].session_id # log[k].session_id) =>
            log[k].prior = <<>>

\* a step changes the stored history of no session id but that of the turn in progress
OtherSessionsUntouched ==
    \A a \in AgentKeys, t \in ThreadIds :
        checkpoints'[a][t] # checkpoints[a][t] =>
            /\ turn'.phase # "idle"
            /\ turn'.session_id = t

\* C9: the history a turn on session id s sees holds only messages of earlier turns
\* on s, the first turn on an id sees an empty history, and a turn on s changes the
\* stored history of no other session id.
C9_SessionIsolation ==
    [][SeesOnlyOwnSession' /\ FreshSessionSeesNothing' /\ OtherSessionsUntouched]_vars

\* C9 witness: after a turn on s1, a finished turn on a generated id that used the
\* same agent: both histories are stored side by side
C9_Witness ==
    /\ Len(log) = 2
    /\ log[2].done
    /\ log[1].session_id = "s1"
    /\ log[2].request.session_id = ""
    /\ log[2].session_id # "s1"
    /\ log[1].agent = log[2].agent
    /\ log[2].prior = <<>>
    /\ checkpoints[log[1].agent]["s1"] = log[1].appended
    /\ checkpoints[log[2].agent][log[2].session_id] = log[2].appended

----------------------------------------------------------------------------
(* Properties of the chat operation *)

\* the messages the chat operation itself puts into the input of agent.invoke
InputOf(k) == SelectSeq(log[k].appended, LAMBDA m : m.role \in {"system", "human"})

\* C18: the user message a turn appends is "[Customer Email: <email>]", a newline and
\* the user's text when customer_email is not empty, and the user's text alone when
\* it is empty; the chat operation writes the email nowhere else.
C18_IdentityThreading ==
    \A k \in 1..Len(log) :
        LET email == log[k].request.customer_email
            text == log[k].request.message
            input == InputOf(k)
            user == input[Len(input)]
        IN /\ Len(input) \in {1, 2}
           /\ user.role = "human"
           /\ email # "" => user.content = "[Customer Email: " \o email \o "]\n" \o text
           /\ email = "" => user.content = text
           /\ \A i \in 1..(Len(input) - 1) :
                 /\ input[i].role = "system"
                 /\ email # "" => ~Contains(input[i].content, email)

\* C18 witness: a session whose first turn came with an email and a system message
\* and whose second turn came without an email
C18_Witness ==
    /\ Len(log) = 2
    /\ log[1].session_id = log[2].session_id
    /\ log[1].request.customer_email = "john@example.com"
    /\ Len(InputOf(1)) = 2
    /\ log[2].request.customer_email = ""
    /\ Len(InputOf(2)) = 1
    /\ log[2].done

(* Properties of tool dispatch inside a chat turn *)

\* turn k is over
Ended(k) == k < Len(log) \/ turn.phase = "idle"

\* C11: when a tool raises during dispatch inside a chat turn, the exception does not
\* leave chat (the caller gets an answer), and the turn stores nothing after the
\* failure: its session's history holds exactly what was appended before it
C11_DispatchFailureAbortsTurnOnly ==
    \A k \in 1..Len(log) :
        (log[k].failed_at > 0 /\ Ended(k)) =>
            /\ ~log[k].escaped
            /\ Len(log[k].appended) = log[k].failed_at

\* a turn in which initiate_return raised and the exception left chat
C11_Escaped ==
    /\ last.op = "chat"
    /\ last.raised
    /\ \E k \in 1..Len(log) : log[k].escaped

\* the catalog the model of turn k is given
CatalogOf(k) == AgentTools(AgentKeyOf(log[k].request))

\* the calls of turn k that the model asked for
RequestedIn(k) ==
    UNION { {m.tool_calls[i].name : i \in 1..Len(m.tool_calls)} :
               m \in {log[k].appended[j] : j \in 1..Len(log[k].appended)} }

\* the calls of turn k that were dispatched
DispatchedIn(k) == {log[k].dispatched[i] : i \in 1..Len(log[k].dispatched)}

SystemCount(history) ==
    Cardinality({i \in 1..Len(history) : history[i].role = "system"})

\* C21: chat prepends the system instruction to a turn's input iff the session's
\* stored history is empty when it is looked up; so every non-empty stored history
\* starts with a system message and holds exactly one
C21_SystemMessageExactlyOnce ==
    /\ \A k \in 1..Len(log) :
          (log[k].appended[1].role = "system") <=> (log[k].prior = <<>>)
    /\ \A a \in AgentKeys, t \in ThreadIds :
          checkpoints[a][t] # <<>> =>
              /\ checkpoints[a][t][1].role = "system"
              /\ SystemCount(checkpoints[a][t]) = 1

\* a second turn on a session has been answered: its history holds two user messages
C21_Witness ==
    /\ turn.phase = "idle"
    /\ \E k \in 1..Len(log) :
          /\ log[k].prior # <<>>
          /\ log[k].done
          /\ log[k].appended[1].role = "human"

\* h is an initial part of g
IsPrefix(h, g) == Len(h) <= Len(g) /\ SubSeq(g, 1, Len(h)) = h

\* C22: a stored history is append-only: in every step, what is stored for a session
\* before the step is a prefix of what is stored for it after the step
C22_HistoryAppendOnly ==
    [][\A a \in AgentKeys, t \in ThreadIds :
          IsPrefix(checkpoints[a][t], checkpoints'[a][t])]_vars

\* a turn on a session with a stored history has stored its own messages after it
C22_Witness ==
    \E k \in 1..Len(log) :
        /\ log[k].prior # <<>>
        /\ Len(log[k].appended) >= 3
        /\ checkpoints[log[k].agent][ThreadIdOf(log[k].session_id)]
              = log[k].prior \o log[k].appended

(* Properties of the shop *)

\* the rows the latest step added to a table
Added(before, after) == after \ before

\* C23: place_order writes an order and its items as one unit: a place_order step
\* either adds one orders row and, with its id, one order_items row per cart
\* position, or adds no orders row and no order_items row
C23_OrderAndItemsTogether ==
    [][last'.op = "place_order" =>
          \/ /\ orders' = orders
             /\ order_items' = order_items
          \/ /\ last'.result.success
             /\ Cardinality(Added(orders, orders')) = 1
             /\ orders \subseteq orders'
             /\ order_items \subseteq order_items'
             /\ \A o \in Added(orders, orders') :
                   /\ o.id = last'.result.order_id
                   /\ \A i \in Added(order_items, order_items') : i.order_id = o.id
                   /\ Cardinality(Added(order_items, order_items'))
                          = Len(last'.args.items)]_vars

\* an order of two cart positions has been placed
C23_Witness ==
    /\ last.op = "place_order"
    /\ last.result.success
    /\ Len(last.args.items) = 2
    /\ \A k \in 1..2 : last.args.items[k].quantity >= 1
    /\ Cardinality({i \in order_items : i.order_id = last.result.order_id}) = 2

\* C24: every order_items row has a quantity of at least 1
C24_QuantitiesPositive ==
    \A i \in order_items : i.quantity >= 1

\* C28: a place_order request answered with success=false leaves every table as it
\* was before the request
C28_FailedOrderChangesNothing ==
    [][(last'.op = "place_order" /\ ~last'.result.success) =>
          /\ customers' = customers
          /\ orders' = orders
          /\ order_items' = order_items
          /\ products' = products
          /\ returns' = returns]_vars

\* C26: every returns row names an order that exists and whose items include the
\* row's product
C26_ReturnsReferToOrders ==
    \A r \in returns :
        /\ OrdersWithId(r.order_id) # {}
        /\ \A o \in OrdersWithId(r.order_id) : ProductInOrder(o, r.product_sku)

(* Properties of the two identity-checked read tools together *)

\* the order ids of a list_customer_orders result
ListedOrderIds(result) ==
    IF result.success
    THEN {result.orders[k].order_id : k \in 1..Len(result.orders)}
    ELSE {}

\* C25: when get_order_status(O.id, e) has succeeded, list_customer_orders(e) on the
\* same tables succeeds and lists O.id
C25_ReadToolsAgree ==
    (last.op = "get_order_status" /\ last.result.success) =>
        LET listed == ListCustomerOrdersResult(last.args.customer_email)
        IN /\ listed.success
           /\ last.args.order_id \in ListedOrderIds(listed)

(* Properties of the gate on the schema it is given *)

\* C27: a query SELECT <column> FROM <table>, for a table and a column of the schema
\* description, passes the denylist check and is executed
C27_GatePassesSchemaColumns ==
    gate.sql_query \in SchemaQueries => (~gate.rejected /\ gate.executed)

----------------------------------------------------------------------------
(* The chat UI: the conversation threads of frontend.py and frontend_advanced.py *)

\* uuid4 identifiers generated in one behaviour of the UI
MaxThreads == 3

\* what the UI never writes: it talks to the server over HTTP only
uiRest == <<storeVars, gate, analysis, knowledge, placing, chatVars>>

\* the two front ends
UiApps == {"frontend", "frontend_advanced"}

\* the names a user may give to a conversation
ThreadNames == {"Returns", "Where is my order"}

\* st.session_state.threads is a dict, which keeps its keys in insertion order: the
\* sequence of its entries.  list(threads.keys())
ThreadKeys(threads) == [k \in 1..Len(threads) |-> threads[k].id]

KeySet(threads) == {threads[k].id : k \in 1..Len(threads)}

\* the thread map of a session that found nothing to load (frontend.py, lines 36-43)
DefaultThreads(id) == <<[id |-> id, name |-> "New Conversation"]>>

\* what save_threads leaves in threads.json (frontend.py, lines 18-20);
\* frontend_advanced.py has no file
Saved(threads) == IF ui.app = "frontend" THEN threads ELSE ui.file

\* lines 30-47 of frontend.py, 33-45 of frontend_advanced.py: a session whose
\* session state is empty loads threads.json when it holds a non-empty map, or
\* starts with one new thread; the active thread is the first key
OpenChatUi ==
    /\ LET loaded == IF ui.app = "frontend" THEN ui.file ELSE <<>>
       IN IF loaded # <<>>
          THEN ui' = [ui EXCEPT !.threads = loaded,
                                !.active_thread_id = ThreadKeys(loaded)[1]]
          ELSE /\ ui.made < MaxThreads
               /\ ui' = [ui EXCEPT !.threads = DefaultThreads(Uuid(ui.made + 1)),
                                   !.active_thread_id = Uuid(ui.made + 1),
                                   !.made = @ + 1]
    /\ UNCHANGED uiRest

\* the name create_new_thread gives (frontend.py, line 59; frontend_advanced.py,
\* line 54)
NewThreadName(threads) ==
    IF ui.app = "frontend" THEN "Conversation " \o Str(Len(threads) + 1)
    ELSE "New Conversation"

\* create_new_thread
CreateNewThread ==
    /\ ui.made < MaxThreads
    /\ LET new_thread_id == Uuid(ui.made + 1)
           threads == Append(ui.threads,
                             [id |-> new_thread_id, name |-> NewThreadName(ui.threads)])
       IN ui' = [ui EXCEPT !.threads = threads,
                           !.active_thread_id = new_thread_id,
                           !.file = Saved(threads),
                           !.made = @ + 1]
    /\ UNCHANGED uiRest

\* del st.session_state.threads[thread_id]
Without(threads, thread_id) ==
    SelectSeq(threads, LAMBDA entry : entry.id # thread_id)

\* delete_thread when the deleted thread stays the active one
ActiveAfterDelete_Kept(threads, active_thread_id) == active_thread_id

\* delete_thread: the active thread becomes the first key of what is left
ActiveAfterDelete(threads, active_thread_id) == ThreadKeys(threads)[1]

\* the session state and the file delete_thread(thread_id) leaves
UiAfterDelete(thread_id) ==
    IF Len(ui.threads) > 1
    THEN LET threads == Without(ui.threads, thread_id)
         IN [ui EXCEPT
               !.threads = threads,
               !.active_thread_id = ActiveAfterDelete(threads, ui.active_thread_id),
               !.file = Saved(threads)]
    ELSE ui

\* delete_thread(thread_id), for a listed thread
DeleteThread ==
    \E thread_id \in KeySet(ui.threads) :
        /\ ui' = UiAfterDelete(thread_id)
        /\ UNCHANGED uiRest

\* switch_thread(thread_id), for a listed thread
SwitchThread ==
    \E thread_id \in KeySet(ui.threads) :
        /\ ui' = [ui EXCEPT !.active_thread_id = thread_id]
        /\ UNCHANGED uiRest

\* st.session_state.threads[thread_id]["name"] = new_name
Renamed(threads, thread_id, new_name) ==
    [k \in 1..Len(threads) |->
        IF threads[k].id = thread_id THEN [threads[k] EXCEPT !.name = new_name]
        ELSE threads[k]]

\* rename_thread(thread_id, new_name) of frontend.py, for a listed thread; in
\* frontend_advanced.py (line 162) the active thread is renamed in place
RenameThread ==
    \E thread_id \in KeySet(ui.threads), new_name \in ThreadNames :
        /\ ui.app = "frontend_advanced" => thread_id = ui.active_thread_id
        /\ LET threads == Renamed(ui.threads, thread_id, new_name)
           IN ui' = [ui EXCEPT !.threads = threads, !.file = Saved(threads)]
        /\ UNCHANGED uiRest

\* a first session of either front end, with no threads.json
InitUi ==
    /\ customers = SeedCustomers
    /\ products = SeedProducts
    /\ orders = SeedOrders(SeedTime)
    /\ order_items = SeedOrderItems
    /\ returns = {}
    /\ now = SeedTime
    /\ last = NoCall
    /\ gate = NoGate
    /\ analysis = NoAnalysis
    /\ knowledge = CreatedKnowledgeBase
    /\ placing = NoPlacing
    /\ ui \in {[app |-> app, threads |-> DefaultThreads(Uuid(1)),
                active_thread_id |-> Uuid(1), file |-> <<>>, made |-> 1] :
                  app \in UiApps}
    /\ checkpoints = [a \in AgentKeys |-> EmptyMemory]
    /\ turn = NoTurn
    /\ used_ids = {}
    /\ log = <<>>

NextUi ==
    \/ OpenChatUi
    \/ CreateNewThread
    \/ DeleteThread
    \/ SwitchThread
    \/ RenameThread

SpecUi == InitUi /\ [][NextUi]_vars

(* Properties of the chat UI *)

\* C30: the thread map is never empty and active_thread_id is one of its keys; and
\* delete_thread on the only thread changes nothing
C30_ActiveThreadIsListed ==
    /\ ui.threads # <<>>
    /\ ui.active_thread_id \in KeySet(ui.threads)
    /\ Len(ui.threads) = 1 =>
          \A thread_id \in KeySet(ui.threads) : UiAfterDelete(thread_id) = ui

\* the active thread of three has been deleted
C30_Witness ==
    /\ Len(ui.threads) = 2
    /\ ui.made = 3
    /\ \E n \in 1..3 : Uuid(n) \notin KeySet(ui.threads)
    /\ ui.active_thread_id = ThreadKeys(ui.threads)[1]

----------------------------------------------------------------------------
(* place_order handled by two server processes on the same database file *)

\* the request of process p has reached position pc
Placing(p, pc, request) == [placing EXCEPT ![p] = [pc |-> pc, request |-> request]]

\* the request of process p is answered
Answered(p, response) ==
    [placing EXCEPT ![p] = [pc |-> "done", request |-> placing[p].request,
                            response |-> response]]

ErrorPlacingOrder ==
    [success |-> FALSE, message |-> "Error placing order: IntegrityError"]

\* line 102: the customer is looked up by email
PlaceOrderLookup(p) ==
    /\ placing[p].pc \in {"idle", "done"}
    /\ Cardinality(orders) < MaxOrders
    /\ \E request \in CheckoutInputs :
          placing' = Placing(p, IF CustomersWithEmail(request.customer_email) = {}
                                THEN "creating" ELSE "validating", request)
    /\ UNCHANGED <<storeVars, gate, analysis, knowledge, ui, chatVars>>

\* lines 104-111: the customer row is added and committed; customers.email is
\* unique (app/database.py, line 18), so the commit raises IntegrityError when the
\* other process has created the customer since the lookup, and the except clause
\* (lines 167-172) answers with success=false
PlaceOrderCreateCustomer(p) ==
    /\ placing[p].pc = "creating"
    /\ LET request == placing[p].request
       IN IF CustomersWithEmail(request.customer_email) # {}
          THEN /\ placing' = Answered(p, ErrorPlacingOrder)
               /\ last' = Returned("place_order", request, ErrorPlacingOrder)
               /\ UNCHANGED customers
          ELSE /\ customers' = CustomersAfterGetOrCreate(request)
               /\ placing' = Placing(p, "validating", request)
               /\ UNCHANGED last
    /\ UNCHANGED <<products, orders, order_items, returns, now>>
    /\ UNCHANGED <<gate, analysis, knowledge, ui, chatVars>>

\* lines 114-137: the cart is validated and the order id is made from the number of
\* orders rows the process reads now
PlaceOrderValidate(p) ==
    /\ placing[p].pc = "validating"
    /\ LET request == placing[p].request
           bad == FirstUnknownSku(request.items)
           response == [success |-> FALSE,
                        message |-> "Product " \o request.items[bad].product_sku
                                        \o " not found"]
       IN IF bad # 0
          THEN /\ placing' = Answered(p, response)
               /\ last' = Returned("place_order", request, response)
          ELSE /\ placing' = [placing EXCEPT ![p] =
                                 [pc |-> "committing", request |-> request,
                                  order_id |-> NewOrderId]]
               /\ UNCHANGED last
    /\ UNCHANGED <<customers, products, orders, order_items, returns, now>>
    /\ UNCHANGED <<gate, analysis, knowledge, ui, chatVars>>

\* lines 139-165: the order and its items are added and committed; orders.id is the
\* primary key, so the commit raises IntegrityError when the id has been taken since
\* it was made, and the except clause rolls back and answers with success=false
PlaceOrderCommit(p) ==
    /\ placing[p].pc = "committing"
    /\ LET request == placing[p].request
           order_id == placing[p].order_id
           customer == CHOOSE c \in customers : c.email = request.customer_email
           total == CartTotal(request.items)
           response == [success |-> TRUE, order_id |-> order_id, total |-> total,
                        message |-> "Order placed successfully! Your order ID is "
                                        \o order_id]
       IN IF OrdersWithId(order_id) # {}
          THEN /\ placing' = Answered(p, ErrorPlacingOrder)
               /\ last' = Returned("place_order", request, ErrorPlacingOrder)
               /\ UNCHANGED <<orders, order_items>>
          ELSE /\ orders' = orders \cup
                     {[id |-> order_id, customer_id |-> customer.id, total |-> total,
                       status |-> "pending", order_date |-> now]}
               /\ order_items' = order_items \cup NewOrderItems(order_id, request.items)
               /\ placing' = Answered(p, response)
               /\ last' = Returned("place_order", request, response)
    /\ UNCHANGED <<customers, products, returns, now>>
    /\ UNCHANGED <<gate, analysis, knowledge, ui, chatVars>>

InitConcurrent ==
    /\ customers = SeedCustomers
    /\ products = SeedProducts
    /\ orders = SeedOrders(SeedTime)
    /\ order_items = SeedOrderItems
    /\ returns = {}
    /\ now = SeedTime
    /\ last = NoCall
    /\ gate = NoGate
    /\ analysis = NoAnalysis
    /\ knowledge = CreatedKnowledgeBase
    /\ placing = NoPlacing
    /\ ui = NoUi
    /\ checkpoints = [a \in AgentKeys |-> EmptyMemory]
    /\ turn = NoTurn
    /\ used_ids = {}
    /\ log = <<>>

NextConcurrent ==
    \E p \in Procs :
        \/ PlaceOrderLookup(p)
        \/ PlaceOrderCreateCustomer(p)
        \/ PlaceOrderValidate(p)
        \/ PlaceOrderCommit(p)

SpecConcurrent == InitConcurrent /\ [][NextConcurrent]_vars

(* Properties of place_order under concurrency *)

\* process p has answered a request whose cart SKUs all exist
AnsweredValidCart(p) ==
    /\ placing[p].pc = "done"
    /\ FirstUnknownSku(placing[p].request.items) = 0

\* C29: every place_order request whose cart SKUs all exist is answered with
\* success=true, however the two processes interleave, and two successful requests
\* never get the same order id
C29_ConcurrentOrdersSucceed ==
    /\ \A p \in Procs : AnsweredValidCart(p) => placing[p].response.success
    /\ \A p, q \in Procs :
          (/\ p # q
           /\ AnsweredValidCart(p) /\ placing[p].response.success
           /\ AnsweredValidCart(q) /\ placing[q].response.success) =>
              placing[p].response.order_id # placing[q].response.order_id
====
